---------------------------- MODULE Spec2Model ----------------------------
(***************************************************************************)
(* Conversational query planner of the football-analytics chat server      *)
(* (server.js): the persisted documents memory.json, pending.json and      *)
(* semantic.json, the pending-clarification state machine, the SQL         *)
(* template engine and the learned-template cache.                         *)
(*                                                                         *)
(* Text is modelled as TLA+ strings, character by character: the regular   *)
(* expressions of the source are translated into operators over Len,       *)
(* SubSeq and \o.  The texts drawn by the actions contain no backslash;    *)
(* several patterns of the source are written with a doubled backslash     *)
(* (/last\\s+(\\d+)/ and the like) and therefore need a literal backslash  *)
(* in the text to match.                                                   *)
(***************************************************************************)
EXTENDS Integers, Sequences, FiniteSets, TLC

VARIABLES
    memoryFile,     \* memory.json   : [aliases, scopes]
    pendingFile,    \* pending.json  : a pending clarification, or NoPending
    semanticFile,   \* semantic.json : [learned_templates, schema_cache]
    schemaCache,    \* the in-process schemaCache object [data, loadedAt]
    now,            \* Date.now()
    req,            \* the chat requests in flight, by request id
    running,        \* the request whose synchronous section runs, or 0
    turns,          \* the chat turns received so far, oldest first
    boot,           \* refreshSchemaCacheOnStartup: "fetching" or "done"
    tpl,            \* one exercise of the template engine
    learnCall,      \* the last call of addLearnedTemplate
    sql,            \* one call of runSqlRpc and the queries it posted
    completion,     \* one call chain of callOpenRouter
    loop,           \* the tool loop of one chat request, call by call
    route,          \* one chat turn followed from its question to its reply
    refresh,        \* the calls of fetchSchema in flight and what each returned
    http,           \* the responses written for the chat requests received
    limitRun        \* one query taken through enforceLastNLimit twice

vars == <<memoryFile, pendingFile, semanticFile, schemaCache, now, req,
          running, turns, boot, tpl, learnCall, sql, completion, loop,
          route, refresh, http, limitRun>>

-----------------------------------------------------------------------------
(* Strings *)

Char(s, i) == SubSeq(s, i, i)

UpperAlpha == "ABCDEFGHIJKLMNOPQRSTUVWXYZ"
LowerAlpha == "abcdefghijklmnopqrstuvwxyz"
Digits == "0123456789"

\* the characters of a string, as a set
CharsOf(s) == {Char(s, i) : i \in 1..Len(s)}

LowerMap == [c \in CharsOf(UpperAlpha) |->
                Char(LowerAlpha, CHOOSE i \in 1..26 : Char(UpperAlpha, i) = c)]

LowerChar(c) == IF c \in DOMAIN LowerMap THEN LowerMap[c] ELSE c

\* The concatenation of piece[lo], ..., piece[hi], by halves: the depth of
\* the evaluation grows with the logarithm of the length.
RECURSIVE Join(_, _, _)
Join(piece, lo, hi) ==
    IF lo > hi THEN ""
    ELSE IF lo = hi THEN piece[lo]
    ELSE Join(piece, lo, (lo + hi) \div 2) \o Join(piece, ((lo + hi) \div 2) + 1, hi)

\* String.prototype.toLowerCase
toLowerCase(s) == Join([i \in 1..Len(s) |-> LowerChar(Char(s, i))], 1, Len(s))

DigitChars == CharsOf(Digits)
LowerChars == CharsOf(LowerAlpha)
UpperChars == CharsOf(UpperAlpha)
\* \w of a regular expression
WordChars == DigitChars \cup LowerChars \cup UpperChars \cup {"_"}
\* \s of a regular expression, on the characters the texts use
SpaceChars == {" ", "\t", "\n", "\r"}

IsDigit(c) == c \in DigitChars
IsSpace(c) == c \in SpaceChars

StartsAt(s, i, p) ==
    /\ i >= 1
    /\ i + Len(p) - 1 <= Len(s)
    /\ SubSeq(s, i, i + Len(p) - 1) = p

\* String.prototype.includes
Includes(s, p) == \E i \in 1..(Len(s) - Len(p) + 1) : StartsAt(s, i, p)

IncludesAny(s, ps) == \E p \in ps : Includes(s, p)

Least(S) == CHOOSE i \in S : \A j \in S : i <= j
Greatest(S) == CHOOSE i \in S : \A j \in S : i >= j

\* the least of a set of indices, or 0 when there is none
FirstOf(S) == IF S = {} THEN 0 ELSE Least(S)

\* the least index >= from where p occurs in s, or 0
IndexFrom(s, p, from) ==
    FirstOf({i \in from..(Len(s) - Len(p) + 1) : StartsAt(s, i, p)})

\* the rest of s from index i
From(s, i) == SubSeq(s, i, Len(s))

\* s from the least to the greatest index of keep
Span(s, keep) ==
    IF keep = {} THEN "" ELSE SubSeq(s, Least(keep), Greatest(keep))

\* String.prototype.trim
trim(s) == Span(s, {i \in 1..Len(s) : ~IsSpace(Char(s, i))})

\* s.replace(/\s+/g, " ")
CollapseSpaces(s) ==
    Join([i \in 1..Len(s) |->
            IF ~IsSpace(Char(s, i)) THEN Char(s, i)
            ELSE IF i > 1 /\ IsSpace(Char(s, i - 1)) THEN "" ELSE " "],
         1, Len(s))

\* the greatest of a set of indices, or 0 when there is none
LastOf(S) == IF S = {} THEN 0 ELSE Greatest(S)

\* s.replace(/[?.!]+$/, "")
StripTrailingPunct(s) ==
    SubSeq(s, 1, LastOf({i \in 1..Len(s) : Char(s, i) \notin {"?", ".", "!"}}))

\* s.replace(new RegExp(pat, "gi"), rep) for a pattern pat without regular
\* expression metacharacters and a replacement rep without "$": every
\* occurrence, leftmost first, not overlapping, letters compared without case.
\* low is toLowerCase(s), lpat is toLowerCase(pat); one level of recursion
\* for each occurrence.
RECURSIVE ReplaceFrom(_, _, _, _, _)
ReplaceFrom(s, low, lpat, rep, from) ==
    LET At(j) == IF j = 0 THEN From(s, from)
                 ELSE SubSeq(s, from, j - 1) \o rep
                         \o ReplaceFrom(s, low, lpat, rep, j + Len(lpat))
    IN  At(IF Len(lpat) = 0 THEN 0 ELSE IndexFrom(low, lpat, from))

ReplaceAllCI(s, pat, rep) ==
    ReplaceFrom(s, toLowerCase(s), toLowerCase(pat), rep, 1)

\* s.replace(/'/g, "''")
escapeQuotes(s) == ReplaceFrom(s, s, "'", "''", 1)

\* \b of a regular expression: a word boundary just before index i
Boundary(s, i) ==
    (i > 1 /\ i - 1 <= Len(s) /\ Char(s, i - 1) \in WordChars)
        # (i >= 1 /\ i <= Len(s) /\ Char(s, i) \in WordChars)

\* word occurs at i between two word boundaries (\bword\b)
WordAt(s, i, word) ==
    /\ StartsAt(s, i, word)
    /\ Boundary(s, i)
    /\ Boundary(s, i + Len(word))

\* s.replace(new RegExp("\\b" + word + "\\b", "g"), rep)
RECURSIVE ReplaceWordFrom(_, _, _, _)
ReplaceWordFrom(s, word, rep, from) ==
    LET At(j) == IF j = 0 THEN From(s, from)
                 ELSE SubSeq(s, from, j - 1) \o rep
                         \o ReplaceWordFrom(s, word, rep, j + Len(word))
    IN  At(IF Len(word) = 0 THEN 0
           ELSE FirstOf({i \in from..Len(s) : WordAt(s, i, word)}))

-----------------------------------------------------------------------------
(* Prompt normalisation *)

normalizePrompt(text) ==
    StripTrailingPunct(CollapseSpaces(trim(text)))

normalizePromptKey(text) == toLowerCase(normalizePrompt(text))

-----------------------------------------------------------------------------
(* Reading a chat message *)

\* the elements of a finite set of numbers, in increasing order
Sorted(S) ==
    [i \in 1..Cardinality(S) |->
        CHOOSE x \in S : Cardinality({y \in S : y < x}) = i - 1]

\* the concatenation of the strings of a sequence, sep between them
JoinWith(parts, sep) ==
    Join([i \in 1..Len(parts) |-> IF i = 1 THEN parts[i] ELSE sep \o parts[i]],
         1, Len(parts))

Greetings ==
    {"hi", "hello", "hey", "how are you", "how's it going", "good morning",
     "good afternoon", "good evening", "greetings", "hi cora", "hi kora"}

stripGreetingPreamble(text) ==
    LET \* String(text).split(/[?!.]/).map((p) => p.trim())
        Pieces(cuts) ==
            [i \in 1..(Len(cuts) - 1) |->
                trim(SubSeq(text, cuts[i] + 1, cuts[i + 1] - 1))]
        \* the while loop: parts.shift() while the head is a greeting
        Shifted(parts, kept) ==
            IF kept = 0 THEN <<>> ELSE SubSeq(parts, kept, Len(parts))
        Parts(parts) ==
            Shifted(parts, FirstOf({i \in 1..Len(parts) :
                                      toLowerCase(parts[i]) \notin Greetings}))
        Joined(joined) == IF joined # "" THEN joined ELSE trim(text)
    IN  Joined(trim(JoinWith(
            Parts(SelectSeq(
                Pieces(Sorted({0, Len(text) + 1}
                         \cup {i \in 1..Len(text) : Char(text, i) \in {"?", "!", "."}})),
                LAMBDA p : p # "")),
            ". ")))

NewQuestionWords ==
    {"show", "compare", "shot map", "pass map", "heatmap", "pitch plot",
     "pass network", "radar", "pizza", "bumpy", "draw", "visualize", "plot",
     "how many", "what", "which", "who", "when", "where"}

looksLikeNewQuestion(text) ==
    IncludesAny(toLowerCase(normalizePrompt(text)), NewQuestionWords)

\* /(\bvs\b|versus|against|comparing|between)/i
detectMultiTeamPrompt(prompt) ==
    LET Test(low) ==
            \/ \E i \in 1..Len(low) : WordAt(low, i, "vs")
            \/ IncludesAny(low, {"versus", "against", "comparing", "between"})
    IN  Test(toLowerCase(normalizePrompt(prompt)))

isVisualizationPrompt(text) ==
    IncludesAny(toLowerCase(normalizePrompt(text)),
                {"shot map", "pass map", "heatmap", "pass network", "pitch plot",
                 "pitch", "visual", "chart"})

isDatabaseIntent(prompt) ==
    LET Test(normalized) ==
            \/ isVisualizationPrompt(normalized)
            \/ IncludesAny(normalized,
                  {"goal", "shot", "pass", "assist", "xg", "block", "tackle",
                   "interception", "foul", "card", "corner", "match", "season",
                   "team", "player", "nickname"})
    IN  Test(toLowerCase(normalizePrompt(prompt)))

\* /\d{4}\/\d{4}/ with the first two digits given ("" for any digits)
SeasonAt(s, i, century) ==
    /\ i + 8 <= Len(s)
    /\ \A k \in {0, 1, 2, 3, 5, 6, 7, 8} : IsDigit(Char(s, i + k))
    /\ Char(s, i + 4) = "/"
    /\ StartsAt(s, i, century) /\ StartsAt(s, i + 5, century)

HasSeasonText(s) == \E i \in 1..Len(s) : SeasonAt(s, i, "")

\* /match\s*id/i on a lower-case text
HasMatchId(low) ==
    \E i \in 1..Len(low) : \E j \in (i + 5)..Len(low) :
        /\ StartsAt(low, i, "match")
        /\ \A k \in (i + 5)..(j - 1) : IsSpace(Char(low, k))
        /\ StartsAt(low, j, "id")

needsScopeForVisual(text) ==
    LET Test(normalized) ==
            LET visual == IncludesAny(normalized,
                             {"shot map", "pass map", "heatmap", "pass network",
                              "pitch plot"})
                hasSeason == \/ \E i \in 1..Len(normalized) :
                                    SeasonAt(normalized, i, "20")
                             \/ Includes(normalized, "season")
                hasMatch == \/ HasMatchId(normalized)
                            \/ IncludesAny(normalized,
                                  {"vs ", "against ", "opponent", "home", "away"})
            IN  visual /\ ~hasSeason /\ ~hasMatch
    IN  Test(toLowerCase(normalizePrompt(text)))

\* buildActionPlan with the analytics vocabulary tested before the
\* visualization vocabulary
buildActionPlanDatabaseFirst(prompt, memory) ==
    LET Plan(intent) ==
            [intent |-> intent,
             forceTool |-> IF intent = "visual" THEN "render_mplsoccer"
                           ELSE IF intent = "database" THEN "run_sql_rpc"
                           ELSE "",
             clarification |-> ""]
        Cleaned(cleaned) ==
            Plan(IF isDatabaseIntent(cleaned) THEN "database"
                 ELSE IF isVisualizationPrompt(cleaned) THEN "visual"
                 ELSE "general")
    IN  Cleaned(stripGreetingPreamble(prompt))

\* the keys of the plan that the handler reads: intent, forceTool, and the
\* clarification ("" for null)
buildActionPlan(prompt, memory) ==
    LET Clarification(cleaned, hasMatchId) ==
            IF ~hasMatchId /\ ~HasSeasonText(cleaned)
            THEN "Which match should I use? You can provide a season (e.g., 2023/2024), a match ID, or the opponent."
            ELSE IF ~hasMatchId /\ ~detectMultiTeamPrompt(cleaned)
            THEN "Which opponent or match ID should I use for the match request?"
            ELSE ""
        Plan(cleaned, low, intent) ==
            [intent |-> intent,
             forceTool |-> IF intent = "visual" THEN "render_mplsoccer"
                           ELSE IF intent = "database" THEN "run_sql_rpc"
                           ELSE "",
             clarification |->
                IF intent = "visual" /\ Includes(low, "match")
                THEN Clarification(cleaned, HasMatchId(low))
                ELSE ""]
        Cleaned(cleaned) ==
            Plan(cleaned, toLowerCase(cleaned),
                 IF isVisualizationPrompt(cleaned) THEN "visual"
                 ELSE IF isDatabaseIntent(cleaned) THEN "database"
                 ELSE "general")
    IN  Cleaned(stripGreetingPreamble(prompt))

-----------------------------------------------------------------------------
(* Aliases of memory.json and the parameters read from a prompt *)

\* An absent (undefined) last_n.  The text parameters team_a, team_b, team
\* and season are absent when "", which the source's truthiness tests treat
\* like undefined.
NoNumber == -1

Params(ta, tb, t, s, n) ==
    [team_a |-> ta, team_b |-> tb, team |-> t, season |-> s, last_n |-> n]

NoParams == Params("", "", "", "", NoNumber)

\* memory.aliases is kept as the sequence of its entries [key, type, value]
\* in insertion order, the order Object.entries walks.
Alias(k, t, v) == [key |-> k, type |-> t, value |-> v]

\* the least index where key stands between two word boundaries in the
\* lower-case text low, or 0
WordIndex(low, lkey) ==
    FirstOf({i \in 1..(Len(low) + 1) : WordAt(low, i, lkey)})

\* buildAliasRegex(key).test(text): the key between two word boundaries,
\* letters compared without case.  escapeRegex makes the key literal; the
\* replacement of /\\s+/g finds no backslash in it and leaves it unchanged.
buildAliasRegex(text, key) ==
    WordIndex(toLowerCase(text), toLowerCase(key)) # 0

\* the team a text names, or "" for null
findKnownTeam(text, memory) ==
    LET Name(entry) == IF entry.value # "" THEN entry.value ELSE entry.key
        Found(i) == IF i = 0 THEN "" ELSE Name(memory.aliases[i])
        Named(low, entry) ==
            /\ entry.type = "team_name"
            /\ \/ WordIndex(low, toLowerCase(entry.key)) # 0
               \/ WordIndex(low, toLowerCase(entry.value)) # 0
        Search(low) ==
            Found(FirstOf({i \in 1..Len(memory.aliases) :
                             Named(low, memory.aliases[i])}))
    IN  Search(toLowerCase(text))

hasKnownAlias(text, memory) ==
    LET Search(low) ==
            \E i \in 1..Len(memory.aliases) :
                WordIndex(low, toLowerCase(memory.aliases[i].key)) # 0
    IN  Search(toLowerCase(text))

\* cleanEntityName and stripTeamPrefix: their prefix patterns are written
\* with \\s+ and match no text without a backslash; what remains is trim.
cleanEntityName(value) == trim(value)

\* normalized.match(/(?:between|comparing) (.+?) and (.+?)$/i): the two
\* groups, or <<>> when there is no match
CompareMatch(normalized) ==
    LET \* where the first group begins when the keyword stands at i, or 0
        Begin(low, i) == IF StartsAt(low, i, "between ") THEN i + 8
                         ELSE IF StartsAt(low, i, "comparing ") THEN i + 10
                         ELSE 0
        Split(k, j) == <<SubSeq(normalized, k, j - 1), From(normalized, j + 5)>>
        Groups(k, ands) ==
            IF k = 0 THEN <<>> ELSE Split(k, Least({j \in ands : j > k}))
        Match(low, ands) ==
            Groups(FirstOf({k \in {Begin(low, i) : i \in 1..Len(low)} :
                              k > 0 /\ \E j \in ands : j > k}),
                   ands)
        Lowered(low) ==
            Match(low, {j \in 1..(Len(low) - 5) : StartsAt(low, j, " and ")})
    IN  Lowered(toLowerCase(normalized))

\* normalized.match(/shots? (?:that )?(.+?) conceded/i) ||
\* normalized.match(/conceded shots? (?:by|for) (.+?)(?:\\s+in|\\s+last|$)/i):
\* the group, or "" when there is no match.  The alternatives \\s+in and
\* \\s+last need a backslash in the text, so the second group runs to the end.
ConcededMatch(normalized) ==
    LET Body(low, k) == IF StartsAt(low, k, "shots ") THEN k + 6
                        ELSE IF StartsAt(low, k, "shot ") THEN k + 5
                        ELSE 0
        After(low, k) == IF StartsAt(low, k, "conceded shots by ") THEN k + 18
                        ELSE IF StartsAt(low, k, "conceded shots for ") THEN k + 19
                        ELSE IF StartsAt(low, k, "conceded shot by ") THEN k + 17
                        ELSE IF StartsAt(low, k, "conceded shot for ") THEN k + 18
                        ELSE 0
        Group(b, ends) ==
            SubSeq(normalized, b, Least({j \in ends : j > b}) - 1)
        That(low, b, ends) ==
            IF StartsAt(low, b, "that ") /\ \E j \in ends : j > b + 5
            THEN Group(b + 5, ends) ELSE Group(b, ends)
        ByTail(t) == IF t = 0 THEN "" ELSE From(normalized, t)
        ByShots(low, b, ends) ==
            IF b # 0 THEN That(low, b, ends)
            ELSE ByTail(FirstOf({t \in {After(low, k) : k \in 1..Len(low)} :
                                   t > 0 /\ t <= Len(low)}))
        Match(low, ends) ==
            ByShots(low,
                    FirstOf({b \in {Body(low, k) : k \in 1..Len(low)} :
                               b > 0 /\ \E j \in ends : j > b}),
                    ends)
        Lowered(low) ==
            Match(low, {j \in 1..Len(low) : StartsAt(low, j, " conceded")})
    IN  Lowered(toLowerCase(normalized))

\* resolved.replace(re, callback) of resolveAlias for one alias: the regular
\* expression has no g flag, so only the first occurrence of the key is
\* considered; it is kept when the text at that place already reads as the
\* value, and replaced by the value otherwise.
ResolveOne(resolved, alias) ==
    LET Put(low, offset) ==
            IF \/ offset = 0
               \/ StartsAt(low, offset, toLowerCase(alias.value))
            THEN resolved
            ELSE SubSeq(resolved, 1, offset - 1) \o alias.value
                    \o From(resolved, offset + Len(alias.key))
        Lowered(low) == Put(low, WordIndex(low, toLowerCase(alias.key)))
    IN  IF alias.type \notin {"team_name", "player_name", "player_nickname"}
        THEN resolved
        ELSE Lowered(toLowerCase(resolved))

RECURSIVE ResolveFrom(_, _, _)
ResolveFrom(text, aliases, i) ==
    IF i > Len(aliases) THEN text
    ELSE ResolveFrom(ResolveOne(text, aliases[i]), aliases, i + 1)

resolveAlias(text, memory) == ResolveFrom(text, memory.aliases, 1)

\* memory.aliases[key] = { type, value }: a new key is appended, an existing
\* key keeps its place
SetAlias(aliases, k, t, v) ==
    IF \E i \in 1..Len(aliases) : aliases[i].key = k
    THEN [i \in 1..Len(aliases) |->
            IF aliases[i].key = k THEN Alias(k, t, v) ELSE aliases[i]]
    ELSE Append(aliases, Alias(k, t, v))

\* memory.aliases?.[key], as a truth value
HasAliasKey(memory, k) ==
    \E i \in 1..Len(memory.aliases) : memory.aliases[i].key = k

\* String.prototype.split(" and ")[0]
BeforeAnd(s) ==
    LET Cut(j) == IF j = 0 THEN s ELSE SubSeq(s, 1, j - 1)
    IN  Cut(IndexFrom(s, " and ", 1))

\* the entity a prompt names, or "" for null.  The last pattern of the
\* source, /([A-Z][a-z]+\\s+[A-Z][a-z]+(?:\\s+[A-Z][a-z]+)?)/, needs a
\* backslash in the prompt and finds no name.
extractEntityCandidate(text) ==
    LET \* where the group begins when the word stands at i, or 0
        For(low, i) == IF StartsAt(low, i, "for ") THEN i + 4
                       ELSE IF StartsAt(low, i, "of ") THEN i + 3 ELSE 0
        Named(low, i) == IF StartsAt(low, i, "player ") THEN i + 7
                         ELSE IF StartsAt(low, i, "team ") THEN i + 5 ELSE 0
        \* the least beginning of a group ([^,]+)$, or 0
        Group(low, begins) ==
            FirstOf({b \in begins : /\ b > 0 /\ b <= Len(low)
                                    /\ ~Includes(From(low, b), ",")})
        \* .replace(/\)$/, "")
        Unclosed(g) == IF Len(g) > 0 /\ Char(g, Len(g)) = ")"
                       THEN SubSeq(g, 1, Len(g) - 1) ELSE g
        Between(low) ==
            \E k \in 1..Len(low) : \E j \in (k + 9)..(Len(low) - 5) :
                StartsAt(low, k, "between ") /\ StartsAt(low, j, " and ")
        ByName(normalized, b) ==
            IF b # 0 THEN trim(From(normalized, b)) ELSE ""
        ByFor(normalized, low, b) ==
            IF b # 0
            THEN trim(BeforeAnd(Unclosed(trim(From(normalized, b)))))
            ELSE IF Between(low) THEN ""
            ELSE ByName(normalized,
                        Group(low, {Named(low, i) : i \in 1..Len(low)}))
        Lowered(normalized, low) ==
            IF IncludesAny(low, {"color", "visual", "chart", "plot", "heatmap",
                                 "shot map", "pass map"})
            THEN ""
            ELSE IF IncludesAny(low, {"did he", "did she", "did they", "did him",
                                      "did her", "did them", "how many",
                                      "errors did he", "blocks did he"})
            THEN ""
            ELSE ByFor(normalized, low,
                       Group(low, {For(low, i) : i \in 1..Len(low)}))
        Normalized(normalized) == Lowered(normalized, toLowerCase(normalized))
    IN  Normalized(normalizePrompt(text))

\* The patterns for last_n, /last\\s+(\\d+)\\s+matches?/i, and for the
\* season, /(\\d{4}\/\\d{4})/, need a backslash in the prompt: neither
\* parameter is ever read from a prompt without one.
extractParamsFromPrompt(prompt, memory) ==
    LET Teams(compareMatch) ==
            IF compareMatch # <<>>
            THEN <<cleanEntityName(compareMatch[1]), cleanEntityName(compareMatch[2])>>
            ELSE <<"", "">>
        Team(teamFromMemory, normalized) ==
            IF teamFromMemory # "" THEN teamFromMemory
            ELSE trim(ConcededMatch(normalized))
        Read(teams, team) == Params(teams[1], teams[2], team, "", NoNumber)
        Normalized(normalized) ==
            Read(Teams(CompareMatch(normalized)),
                 Team(findKnownTeam(normalized, memory), normalized))
    IN  Normalized(normalizePrompt(prompt))

\* Object.keys(params), in the order the keys were assigned
ObjectKeys(params) ==
    (IF params.last_n # NoNumber THEN <<"last_n">> ELSE <<>>)
    \o (IF params.season # "" THEN <<"season">> ELSE <<>>)
    \o (IF params.team_a # "" THEN <<"team_a", "team_b">> ELSE <<>>)
    \o (IF params.team # "" THEN <<"team">> ELSE <<>>)

-----------------------------------------------------------------------------
(* memory.json and pending.json *)

\* memory.scopes holds the fixed keys last_entity, last_teams, last_match and
\* last_pass_map next to one entry for each scope key; the entries by scope
\* key are the function keyed.  An absent text is "", absent teams and an
\* absent pass map are <<>>, an absent match id is 0.
NoScopes ==
    [last_entity |-> "", last_teams |-> <<>>, last_match |-> 0,
     last_pass_map |-> <<>>, keyed |-> <<>>]

\* the fallback of getMemory: { aliases: {}, scopes: {} }
EmptyMemory == [aliases |-> <<>>, scopes |-> NoScopes]

ScopeEntry(s, o) == [season |-> s, opponent |-> o]

\* scope[scopeKey] || {}
ScopeOf(scopes, scopeKey) ==
    IF scopeKey \in DOMAIN scopes.keyed THEN scopes.keyed[scopeKey]
    ELSE ScopeEntry("", "")

SetScope(scopes, scopeKey, entry) ==
    [scopes EXCEPT !.keyed =
        [k \in DOMAIN scopes.keyed \cup {scopeKey} |->
            IF k = scopeKey THEN entry ELSE scopes.keyed[k]]]

\* pending.json: kind is "none" when the file is absent; a key the stored
\* object lacks reads as "" (undefined) or 0.
Pending(kind, key, original, scopeKey, remaining, asking) ==
    [kind |-> kind, key |-> key, original |-> original, scopeKey |-> scopeKey,
     remaining |-> remaining, asking |-> asking]

NoPending == Pending("none", "", "", "", 0, "")

\* what handlePendingClarification returns: null, { question } or
\* { resolved }; a resolved that is undefined reads as ""
NoResult == [kind |-> "null", question |-> "", resolved |-> ""]

\* handlePendingClarification taking the answer and leaving pending.json as
\* it found it (no savePending after the answer)
AnswerLeavesPending(answer, pending, stored) ==
    [pending |-> pending, memory |-> stored,
     result |-> [kind |-> "resolved", question |-> "",
                 resolved |-> pending.original]]

\* handlePendingClarification past its early returns: the answer is written
\* into memory.json and the pending clarification is advanced or cleared
AnswerPending(answer, pending, stored) ==
    LET \* the alias entry written for cleanKey
        Entry(low, cleanKey) ==
            IF Includes(low, "team") THEN Alias(cleanKey, "team_name", cleanKey)
            ELSE IF Includes(low, "nick")
            THEN Alias(cleanKey, "player_nickname", cleanKey)
            ELSE IF IncludesAny(low, {"player", "name"})
            THEN Alias(cleanKey, "player_name", cleanKey)
            ELSE Alias(cleanKey, "player_name", answer)
        Resolved(memory) ==
            [pending |-> NoPending, memory |-> memory,
             result |-> [kind |-> "resolved", question |-> "",
                         resolved |-> resolveAlias(pending.original, memory)]]
        WithAlias(entry) ==
            Resolved([stored EXCEPT !.aliases =
                        SetAlias(stored.aliases, entry.key, entry.type, entry.value)])
        \* the scope entry after the answer is written into it
        Answered(asking, entry) ==
            IF Includes(asking, "season") THEN [entry EXCEPT !.season = answer]
            ELSE IF IncludesAny(asking, {"opponent", "home", "away"})
            THEN [entry EXCEPT !.opponent = answer]
            ELSE entry
        WithScope(memory) ==
            IF pending.remaining > 1
            THEN [pending |-> Pending("scope", "", "", pending.scopeKey,
                                      pending.remaining - 1,
                                      "Any opponent or home/away filter?"),
                  memory |-> memory,
                  result |-> [kind |-> "question",
                              question |-> "Any opponent or home/away filter? (e.g., vs Pyramids, home, away)",
                              resolved |-> ""]]
            ELSE [pending |-> NoPending, memory |-> memory,
                  result |-> [kind |-> "resolved", question |-> "",
                              resolved |-> pending.original]]
    IN  IF pending.kind = "alias"
        THEN WithAlias(Entry(toLowerCase(answer), trim(BeforeAnd(pending.key))))
        ELSE IF pending.kind = "scope"
        THEN WithScope([stored EXCEPT !.scopes =
                SetScope(stored.scopes, pending.scopeKey,
                         Answered(toLowerCase(pending.asking),
                                  ScopeOf(stored.scopes, pending.scopeKey)))])
        ELSE [pending |-> pending, memory |-> stored, result |-> NoResult]

\* handlePendingClarification without its test for a new question: whatever
\* is said while a clarification is pending is taken as the answer
AnswerWhateverIsSaid(lastQuestion, pending, stored) ==
    LET Answer(answer) ==
            IF answer = ""
            THEN [pending |-> pending, memory |-> stored, result |-> NoResult]
            ELSE AnswerPending(answer, pending, stored)
    IN  IF pending.kind = "none"
        THEN [pending |-> pending, memory |-> stored, result |-> NoResult]
        ELSE Answer(normalizePrompt(lastQuestion))

\* handlePendingClarification without its test for an empty answer
AnswerEvenIfEmpty(lastQuestion, pending, stored) ==
    LET Answer(answer) ==
            IF looksLikeNewQuestion(answer)
            THEN [pending |-> NoPending, memory |-> stored, result |-> NoResult]
            ELSE AnswerPending(answer, pending, stored)
    IN  IF pending.kind = "none"
        THEN [pending |-> pending, memory |-> stored, result |-> NoResult]
        ELSE Answer(normalizePrompt(lastQuestion))

\* handlePendingClarification(lastQuestion) on the files as they are:
\* the files it leaves and the result it returns
handlePendingClarification(lastQuestion, pending, stored) ==
    LET Answer(answer) ==
            IF answer = ""
            THEN [pending |-> pending, memory |-> stored, result |-> NoResult]
            ELSE IF looksLikeNewQuestion(answer)
            THEN [pending |-> NoPending, memory |-> stored, result |-> NoResult]
            ELSE AnswerPending(answer, pending, stored)
    IN  IF pending.kind = "none"
        THEN [pending |-> pending, memory |-> stored, result |-> NoResult]
        ELSE Answer(normalizePrompt(lastQuestion))

\* setLastTeams and setLastEntity (like setLastMatchContext and
\* rememberLastPassMap, which no path followed here reaches) write into the
\* scopes object of the memory they are given (the copy { ...memory } shares
\* it) and save that memory: the memory the request holds afterwards, which
\* is also what memory.json then contains.
setLastTeams(memory, teamA, teamB) ==
    IF teamA = "" \/ teamB = "" THEN memory
    ELSE [memory EXCEPT !.scopes.last_teams = <<teamA, teamB>>]

setLastEntity(memory, value) == [memory EXCEPT !.scopes.last_entity = value]

-----------------------------------------------------------------------------
(* SQL template engine *)

\* query.replace(new RegExp(escaped value, "gi"), token) when the value is
\* present.  The source builds the pattern from the quote-doubled value; its
\* metacharacter escaping, /[.*+?^${}()|[\\]\\\\]/g, matches no value that
\* lacks a backslash, so the value is the pattern as it stands.
ReplaceValue(query, value, token) ==
    IF value # "" THEN ReplaceAllCI(query, escapeQuotes(value), token) ELSE query

buildQueryTemplate(query, params) ==
    LET Number(template) ==
            IF params.last_n # NoNumber /\ params.last_n # 0
            THEN ReplaceWordFrom(template, ToString(params.last_n), "{{last_n}}", 1)
            ELSE template
    IN  Number(
          ReplaceValue(
            ReplaceValue(
              ReplaceValue(
                ReplaceValue(query, params.team_a, "{{team_a}}"),
                params.team_b, "{{team_b}}"),
              params.team, "{{team}}"),
            params.season, "{{season}}"))

\* template.replace(pattern, value) when the parameter is present.  The
\* patterns of the source, /\\{\\{team_a\\}\\}/gi and the like, are written
\* with doubled backslashes: each matches the text \{\{team_a\}\},
\* backslashes included.
FillValue(template, pattern, present, value) ==
    IF present THEN ReplaceAllCI(template, pattern, value) ELSE template

fillQueryTemplate(template, params) ==
    FillValue(
      FillValue(
        FillValue(
          FillValue(
            FillValue(template, "\\{\\{team_a\\}\\}", params.team_a # "",
                      escapeQuotes(params.team_a)),
            "\\{\\{team_b\\}\\}", params.team_b # "", escapeQuotes(params.team_b)),
          "\\{\\{team\\}\\}", params.team # "", escapeQuotes(params.team)),
        "\\{\\{season\\}\\}", params.season # "", escapeQuotes(params.season)),
      "\\{\\{last_n\\}\\}", params.last_n # NoNumber, ToString(params.last_n))

-----------------------------------------------------------------------------
(* Names of learned templates: simpleHash and slugify *)

\* The printable ASCII characters in code order: codes 32 to 95, and codes
\* 97 to 126 (code 96, the grave accent, occurs in no text of the model)
AsciiLow ==
    " !\"#$%&'()*+,-./0123456789:;<=>?@ABCDEFGHIJKLMNOPQRSTUVWXYZ[\\]^_"
AsciiHigh == "abcdefghijklmnopqrstuvwxyz{|}~"

CharCodeMap ==
    [c \in CharsOf(AsciiLow) \cup CharsOf(AsciiHigh) |->
        IF c \in CharsOf(AsciiLow)
        THEN 31 + (CHOOSE i \in 1..Len(AsciiLow) : Char(AsciiLow, i) = c)
        ELSE 96 + (CHOOSE i \in 1..Len(AsciiHigh) : Char(AsciiHigh, i) = c)]

\* String.prototype.charCodeAt
charCodeAt(s, i) == CharCodeMap[Char(s, i)]

\* 32-bit words are kept as two 16-bit limbs [hi, lo].
Limb == 65536

Word32(hi, lo) == [hi |-> hi, lo |-> lo]

\* the product of two limbs, as a 32-bit word
MulLimbs(x, y) ==
    LET Sum(a, b, low) ==
            Word32((a \div 256) + (b \div Limb) + (low \div Limb), low % Limb)
        Parts(a, b) == Sum(a, b, (a % 256) * 256 + (b % Limb))
    IN  Parts((x \div 256) * y, (x % 256) * y)

\* (a * b) | 0, up to the sign
Mul32(a, b) ==
    LET Sum(low) ==
            Word32((low.hi + MulLimbs(a.hi, b.lo).lo + MulLimbs(a.lo, b.hi).lo) % Limb,
                   low.lo)
    IN  Sum(MulLimbs(a.lo, b.lo))

\* (a + b) | 0, up to the sign
Add32(a, b) ==
    Word32((a.hi + b.hi + ((a.lo + b.lo) \div Limb)) % Limb, (a.lo + b.lo) % Limb)

\* The loop of simpleHash, hash = ((hash << 5) - hash + code) | 0, computes
\* hash * 31 + code modulo 2^32.  Over input[lo..hi] it maps hash h to
\* h * mul + add; the two words are computed by halves.
RECURSIVE HashRange(_, _, _)
HashRange(input, lo, hi) ==
    LET Both(left, right) ==
            [mul |-> Mul32(left.mul, right.mul),
             add |-> Add32(Mul32(left.add, right.mul), right.add)]
    IN  IF lo > hi THEN [mul |-> Word32(0, 1), add |-> Word32(0, 0)]
        ELSE IF lo = hi
        THEN [mul |-> Word32(0, 31), add |-> Word32(0, charCodeAt(input, lo))]
        ELSE Both(HashRange(input, lo, (lo + hi) \div 2),
                  HashRange(input, ((lo + hi) \div 2) + 1, hi))

\* Math.abs of the signed reading of a 32-bit word
Abs32(w) ==
    IF w.hi < 32768 THEN w
    ELSE Word32((65535 - w.hi + (IF w.lo = 0 THEN 1 ELSE 0)) % Limb,
                (Limb - w.lo) % Limb)

\* the decimal digits of a word, as String(number) writes them
RECURSIVE Decimal(_)
Decimal(w) ==
    LET Digit(t) == Char(Digits, (t % 10) + 1)
        Write(t) ==
            IF w.hi \div 10 = 0 /\ t \div 10 = 0 THEN Digit(t)
            ELSE Decimal(Word32(w.hi \div 10, t \div 10)) \o Digit(t)
    IN  Write((w.hi % 10) * Limb + w.lo)

\* simpleHash(input), as the text the template literal interpolates
simpleHash(input) == Decimal(Abs32(HashRange(input, 1, Len(input)).add))

IsSlugChar(c) == c \in LowerChars \/ c \in DigitChars

\* String.prototype.slice(0, n)
Slice0(s, n) == IF Len(s) <= n THEN s ELSE SubSeq(s, 1, n)

SlugMax == 60

slugify(input) ==
    LET \* .replace(/[^a-z0-9]+/g, "_")
        Under(low) ==
            Join([i \in 1..Len(low) |->
                    IF IsSlugChar(Char(low, i)) THEN Char(low, i)
                    ELSE IF i > 1 /\ ~IsSlugChar(Char(low, i - 1)) THEN ""
                    ELSE "_"], 1, Len(low))
        \* .replace(/^_+|_+$/g, "")
        Bare(under) == Span(under, {i \in 1..Len(under) : Char(under, i) # "_"})
    IN  Slice0(Bare(Under(toLowerCase(input))), SlugMax)

-----------------------------------------------------------------------------
(* The learned-template cache of semantic.json *)

IntentKeys ==
    <<"shot", "shots", "conceded", "pass", "passes", "heatmap", "pitch plot",
      "shot map", "pass map", "goal", "goals">>

buildIntentKeywords(prompt) ==
    LET Keys(normalized) ==
            SelectSeq(IntentKeys, LAMBDA key : Includes(normalized, key))
    IN  Keys(normalizePromptKey(prompt))

LearnedTemplate(name, chartType, queryTemplate, params, keywords, sourcePrompt) ==
    [name |-> name, chart_type |-> chartType, query_template |-> queryTemplate,
     params |-> params, intent_keywords |-> keywords,
     source_prompt |-> sourcePrompt]

\* the name addLearnedTemplate derives for an entry
LearnedName(chartType, sourcePrompt, queryTemplate) ==
    "learned_" \o chartType \o "_" \o slugify(sourcePrompt) \o "_"
        \o simpleHash(chartType \o ":" \o normalizePromptKey(sourcePrompt)
                         \o ":" \o queryTemplate)

HasName(templates, name) == \E i \in 1..Len(templates) : templates[i].name = name

\* The entry addLearnedTemplate pushes
NewEntry(chartType, query, sourcePrompt, memory) ==
    LET Entry(params, queryTemplate) ==
            LearnedTemplate(LearnedName(chartType, sourcePrompt, queryTemplate),
                            chartType, queryTemplate, ObjectKeys(params),
                            buildIntentKeywords(sourcePrompt),
                            normalizePrompt(sourcePrompt))
        Read(params) == Entry(params, buildQueryTemplate(query, params))
    IN  Read(extractParamsFromPrompt(sourcePrompt, memory))

\* addLearnedTemplate without its test of the two team placeholders
PushUnlessNamed(templates, chartType, query, sourcePrompt, memory) ==
    LET Push(entry) ==
            IF HasName(templates, entry.name) THEN templates
            ELSE Append(templates, entry)
    IN  IF chartType = "" \/ query = "" \/ sourcePrompt = "" THEN templates
        ELSE Push(NewEntry(chartType, query, sourcePrompt, memory))

\* addLearnedTemplate without its test of the name
PushUnlessOneSided(templates, chartType, query, sourcePrompt, memory) ==
    LET Push(entry) ==
            IF /\ detectMultiTeamPrompt(sourcePrompt)
               /\ \/ ~Includes(entry.query_template, "{{team_a}}")
                  \/ ~Includes(entry.query_template, "{{team_b}}")
            THEN templates
            ELSE Append(templates, entry)
    IN  IF chartType = "" \/ query = "" \/ sourcePrompt = "" THEN templates
        ELSE Push(NewEntry(chartType, query, sourcePrompt, memory))

\* addLearnedTemplate({ chartType, query, sourcePrompt, memory }) on the
\* learned_templates of semantic.json: the list it leaves in the file
addLearnedTemplate(templates, chartType, query, sourcePrompt, memory) ==
    LET Stored(params, queryTemplate, name) ==
            IF HasName(templates, name) THEN templates
            ELSE Append(templates,
                    LearnedTemplate(name, chartType, queryTemplate,
                                    ObjectKeys(params),
                                    buildIntentKeywords(sourcePrompt),
                                    normalizePrompt(sourcePrompt)))
        Built(params, queryTemplate) ==
            IF /\ detectMultiTeamPrompt(sourcePrompt)
               /\ \/ ~Includes(queryTemplate, "{{team_a}}")
                  \/ ~Includes(queryTemplate, "{{team_b}}")
            THEN templates
            ELSE Stored(params, queryTemplate,
                        LearnedName(chartType, sourcePrompt, queryTemplate))
        Read(params) == Built(params, buildQueryTemplate(query, params))
    IN  IF chartType = "" \/ query = "" \/ sourcePrompt = "" THEN templates
        ELSE Read(extractParamsFromPrompt(sourcePrompt, memory))

-----------------------------------------------------------------------------
(* Initial contents *)

\* new Date() of a snapshot never taken
NoTime == -1

SCHEMA_TTL_MS == 5 * 60 * 1000

\* semantic.json before anything is learned and before any schema snapshot
EmptySemantic == [learned_templates |-> <<>>, schema_cache |-> NoTime]

\* const schemaCache = { data: null, loadedAt: 0 }
EmptySchemaCache == [data |-> FALSE, loadedAt |-> 0]

NoTemplateRun ==
    [stage |-> "off", query |-> "", params |-> NoParams, template |-> "",
     filled |-> ""]

\* learnCall before any call.  given: no argument of the call is empty;
\* multi: the source prompt is multi-team; complete: the derived template
\* holds both team placeholders; name: the derived name; found: an entry of
\* that name was in the list before the call.
NoLearnCall ==
    [given |-> FALSE, multi |-> FALSE, complete |-> FALSE, name |-> "",
     found |-> FALSE]

\* no call of runSqlRpc is under way: pc is where the call stands, query the
\* cleaned text of the innermost call and attempts its third argument, posted
\* the bodies sent to rpc/run_sql_readonly so far and errors the failure
\* texts the gateway answered them with, values the texts interpolated
\* between quotes by the caller that assembled the query, thrown the message
\* of the error the call ended with
NoSqlCall ==
    [pc |-> "idle", query |-> "", attempts |-> 0, posted |-> <<>>,
     errors |-> <<>>, values |-> {}, thrown |-> ""]

\* no call of callOpenRouter is under way: payload is the model the planner
\* asked for; model, retries and fallbackModel are the arguments of the
\* innermost call, outer the message held by a call waiting in its fallback
\* branch, requests the models of the requests issued and outcomes how the
\* ended ones ended, switched the number of fallback calls made, thrown the
\* name of the error the chain ended with
NoCompletion ==
    [pc |-> "idle", payload |-> "", model |-> "", retries |-> 0,
     fallbackModel |-> "", outer |-> "", requests |-> <<>>, outcomes |-> <<>>,
     switched |-> 0, thrown |-> ""]

\* no tool loop is under way: phase tells which callOpenRouter is awaited
\* ("first", "next" inside the loop, "forced" for its retry), visual is
\* isVisualizationPrompt(lastQuestionRaw), calls the tool calls of the last
\* response (id and name) and next the index of the one the for statement
\* stands at, messages the message list (role, and the ids of the tool calls
\* asked for or answered), executed the ids of the calls executed so far,
\* rounds the number of times the body of the while statement was entered,
\* handled visualizationHandled, image the id of the call whose result is
\* imageAttachment or 0, completions the planning calls of callOpenRouter,
\* reply what was sent
NoLoop ==
    [pc |-> "idle", phase |-> "", visual |-> FALSE, calls |-> <<>>, next |-> 0,
     messages |-> <<>>, executed |-> <<>>, safetyCounter |-> 0, rounds |-> 0,
     handled |-> FALSE, image |-> 0, completions |-> 0,
     reply |-> [status |-> 0, text |-> "", image |-> 0]]

\* the arguments of a call of renderMplSoccerAndLearn: an absent text is "",
\* absent template_vars are <<>>
RenderArgs(chartType, query, template, templateVars, seriesSplitField) ==
    [chart_type |-> chartType, query |-> query, template |-> template,
     template_vars |-> templateVars, series_split_field |-> seriesSplitField]

NoRender == RenderArgs("", "", "", <<>>, "")

\* the action plan of a turn that has none yet
NoPlan == [intent |-> "", forceTool |-> "", clarification |-> ""]

\* a turn followed from its question to its reply: stage is "idle",
\* "render", "answer", "planner" or "done", asked the turns received so far,
\* raw lastQuestionRaw, question lastQuestion, plan the action plan, paths the
\* branches entered in order, used the learned template rendered (its index,
\* or 0), args the arguments given to the renderer, renders the calls of the
\* renderer, completions the planning calls of callOpenRouter, memory the
\* object the handler holds, status and reply the response
NoRoute ==
    [stage |-> "idle", asked |-> 0, raw |-> "", question |-> "", plan |-> NoPlan,
     paths |-> <<>>, used |-> 0, args |-> NoRender, renders |-> 0,
     completions |-> 0, memory |-> EmptyMemory, status |-> 0, reply |-> ""]

\* no call of fetchSchema so far: calls is the calls in order of entry, origin
\* the start of the fetch that produced the snapshot in schemaCache
NoRefresh == [calls |-> <<>>, origin |-> NoTime]

\* no chat request received so far: requests is the requests in order of
\* arrival, exited whether the process has terminated
NoHttp == [requests |-> <<>>, exited |-> FALSE]

\* no query drawn: query, prompt and series are the arguments drawn, learned
\* params.query after renderMplSoccerAndLearn, rendered effectiveQuery of
\* renderMplSoccer
NoLimitRun ==
    [stage |-> "none", query |-> "", prompt |-> "", series |-> "",
     learned |-> "", rendered |-> ""]

Requests == {1, 2}

\* a request slot: pc is where the handler stands ("idle" when the slot is
\* free), turn its place in turns, raw lastQuestionRaw, question lastQuestion,
\* resolved whether pendingResult.resolved is truthy, memory the object read
\* by getMemory() at the top of the handler, name and chart the learned
\* template picked for the prompt, calls the tool calls of the model's
\* response still to run, rounds safetyCounter, since the Date.now() read on
\* entering fetchSchema, semantic the document loaded by getSemanticHints,
\* handled visualizationHandled.
IdleRequest ==
    [pc |-> "idle", turn |-> 0, raw |-> "", question |-> "", resolved |-> FALSE,
     memory |-> EmptyMemory, name |-> "", chart |-> "", calls |-> <<>>,
     rounds |-> 0, since |-> 0, semantic |-> EmptySemantic, handled |-> FALSE]

ServerInit ==
    /\ memoryFile = EmptyMemory
    /\ pendingFile = NoPending
    /\ semanticFile = EmptySemantic
    /\ schemaCache = EmptySchemaCache
    /\ now = 0
    /\ req = [r \in Requests |-> IdleRequest]
    /\ running = 0
    /\ turns = <<>>
    /\ boot = "fetching"
    /\ learnCall = NoLearnCall
    /\ sql = NoSqlCall
    /\ completion = NoCompletion
    /\ loop = NoLoop
    /\ route = NoRoute
    /\ refresh = NoRefresh
    /\ http = NoHttp
    /\ limitRun = NoLimitRun

serverVars == <<memoryFile, pendingFile, semanticFile, schemaCache, now, req,
                running, turns, boot, learnCall, sql, completion, loop,
                route, refresh, http, limitRun>>

-----------------------------------------------------------------------------
(* The template engine exercised on literal queries and parameter sets *)

TemplateQueries ==
    { "select x, y from ev where team_name ilike '%Al Ahly%'",
      "select x, y from ev where team_name ilike '%AL AHLY%' or team_name ilike '%Zamalek%'",
      "select x from ev where team_name ilike '%Zamalek%' and season_name = '2023/2024'",
      "select x from ev where team_name ilike '%O''Neil%' order by date_time desc limit 5",
      "select x, y5 from ev where match_id = 5 and minute < 15",
      "select 1" }

TemplateParams ==
    { Params(ta, tb, t, s, n) :
        ta \in {"", "Al Ahly"}, tb \in {"", "Zamalek"},
        t \in {"", "Al Ahly", "O'Neil"}, s \in {"", "2023/2024"},
        n \in {NoNumber, 5} }

TemplateInit ==
    /\ ServerInit
    /\ tpl \in { [stage |-> "input", query |-> q, params |-> p, template |-> "",
                   filled |-> ""] : q \in TemplateQueries, p \in TemplateParams }

\* buildQueryTemplate(query, params)
Build ==
    /\ tpl.stage = "input"
    /\ tpl' = [tpl EXCEPT !.stage = "built",
                          !.template = buildQueryTemplate(tpl.query, tpl.params)]
    /\ UNCHANGED serverVars

\* fillQueryTemplate(template, params)
Fill ==
    /\ tpl.stage = "built"
    /\ tpl' = [tpl EXCEPT !.stage = "filled",
                          !.filled = fillQueryTemplate(tpl.template, tpl.params)]
    /\ UNCHANGED serverVars

TemplateNext == Build \/ Fill

TemplateSpec == TemplateInit /\ [][TemplateNext]_vars

\* the placeholder tokens of the parameters present in params
PlaceholdersOf(params) ==
    (IF params.team_a # "" THEN {"{{team_a}}"} ELSE {})
    \cup (IF params.team_b # "" THEN {"{{team_b}}"} ELSE {})
    \cup (IF params.team # "" THEN {"{{team}}"} ELSE {})
    \cup (IF params.season # "" THEN {"{{season}}"} ELSE {})
    \cup (IF params.last_n # NoNumber THEN {"{{last_n}}"} ELSE {})

\* C8: for every literal query q and parameter set p,
\* fillQueryTemplate(buildQueryTemplate(q, p), p) contains no placeholder of
\* a parameter present in p and equals q up to the case of letters.
RoundTrip ==
    tpl.stage = "filled" =>
        /\ ~IncludesAny(tpl.filled, PlaceholdersOf(tpl.params))
        /\ toLowerCase(tpl.filled) = toLowerCase(tpl.query)

-----------------------------------------------------------------------------
(* addLearnedTemplate exercised on chart types, queries, prompts, memories *)

LearnCharts == {"shot_map", ""}

LearnQueries ==
    { "select team_name, x, y from ev where team_name ilike '%Ahly%' or team_name ilike '%Zamalek%'",
      "select x, y from ev where team_name ilike '%Ahly%'",
      "" }

LearnPrompts ==
    { "Show a shot map comparing Ahly and Zamalek?",
      "shot map of Ahly against Zamalek",
      "show a shot map for Ahly" }

LearnMemories ==
    { EmptyMemory,
      [EmptyMemory EXCEPT !.aliases = <<Alias("Ahly", "team_name", "Ahly")>>] }

\* the most entries the exercise lets learned_templates hold
MaxLearned == 2

\* For each call of the exercise, what the call derives: whether the prompt
\* is multi-team, the query template, and the name of the entry.
LearnDerived ==
    [chartType \in LearnCharts, query \in LearnQueries,
     sourcePrompt \in LearnPrompts, memory \in LearnMemories |->
        LET queryTemplate ==
                buildQueryTemplate(query, extractParamsFromPrompt(sourcePrompt, memory))
        IN  [multi |-> detectMultiTeamPrompt(sourcePrompt),
             template |-> queryTemplate,
             name |-> IF chartType = "" \/ query = "" THEN ""
                      ELSE LearnedName(chartType, sourcePrompt, queryTemplate)]]

\* the facts of a call that learnCall records
LearnCall(templates, chartType, query, sourcePrompt, memory) ==
    LET Facts(d) ==
            [given |-> TRUE, multi |-> d.multi,
             complete |-> /\ Includes(d.template, "{{team_a}}")
                          /\ Includes(d.template, "{{team_b}}"),
             name |-> d.name, found |-> HasName(templates, d.name)]
    IN  IF chartType = "" \/ query = "" \/ sourcePrompt = "" THEN NoLearnCall
        ELSE Facts(LearnDerived[chartType, query, sourcePrompt, memory])

LearnInit == ServerInit /\ tpl = NoTemplateRun

Learn ==
    \E chartType \in LearnCharts, query \in LearnQueries,
       sourcePrompt \in LearnPrompts, memory \in LearnMemories :
        LET after == addLearnedTemplate(semanticFile.learned_templates,
                                        chartType, query, sourcePrompt, memory)
        IN  /\ Len(after) <= MaxLearned
            /\ semanticFile' = [semanticFile EXCEPT !.learned_templates = after]
            /\ learnCall' = LearnCall(semanticFile.learned_templates,
                                      chartType, query, sourcePrompt, memory)
            /\ UNCHANGED <<memoryFile, pendingFile, schemaCache, now, req,
                           running, turns, boot, tpl, route, refresh, http, limitRun,
                           sql, completion, loop>>

LearnNext == Learn

LearnSpec == LearnInit /\ [][LearnNext]_vars

\* the stored entries whose source prompt is multi-team
MultiTeamEntries ==
    {i \in 1..Len(semanticFile.learned_templates) :
        detectMultiTeamPrompt(semanticFile.learned_templates[i].source_prompt)}

\* the stored entries of a name
EntriesNamed(name) ==
    {i \in 1..Len(semanticFile.learned_templates) :
        semanticFile.learned_templates[i].name = name}

\* C9: every stored entry whose source prompt is multi-team has a
\* query_template containing both {{team_a}} and {{team_b}}, and a call for a
\* multi-team prompt whose derived template lacks one of them stores nothing
\* and leaves semantic.json unchanged.
MultiTeamTemplatesComplete ==
    /\ [](\A i \in MultiTeamEntries :
            /\ Includes(semanticFile.learned_templates[i].query_template, "{{team_a}}")
            /\ Includes(semanticFile.learned_templates[i].query_template, "{{team_b}}"))
    /\ [][(learnCall'.given /\ learnCall'.multi /\ ~learnCall'.complete)
             => semanticFile' = semanticFile]_vars

\* a call for a multi-team prompt was refused while a complete multi-team
\* entry is stored
OneSidedCallRefused ==
    /\ learnCall.given /\ learnCall.multi /\ ~learnCall.complete
    /\ EntriesNamed(learnCall.name) = {}
    /\ MultiTeamEntries # {}

\* C10: a call that stores (its arguments are given and it is not refused
\* as one-sided) leaves exactly one entry of the derived name, a call that
\* finds its name stored changes nothing, and no two stored entries have the
\* same name.
LearningIdempotent ==
    /\ [](\A i, j \in 1..Len(semanticFile.learned_templates) :
            semanticFile.learned_templates[i].name
                = semanticFile.learned_templates[j].name => i = j)
    /\ []((learnCall.given /\ (learnCall.multi => learnCall.complete))
            => Cardinality(EntriesNamed(learnCall.name)) = 1)
    /\ [][(learnCall'.given /\ learnCall'.found)
             => semanticFile' = semanticFile]_vars

\* a call was repeated for a name already stored, next to another entry
RepeatedCall ==
    /\ learnCall.given /\ learnCall.found
    /\ EntriesNamed(learnCall.name) # {}
    /\ Len(semanticFile.learned_templates) = MaxLearned

-----------------------------------------------------------------------------
(* The chat handler, proxyChat                                             *)
(*                                                                         *)
(* A request runs from one await of real input or output to the next       *)
(* without interruption; between two such awaits no other request runs.    *)
(* An await of an async function that returns without waiting (fetchSchema *)
(* on a valid cache, a direct answer whose pattern does not match) resumes *)
(* before any other request is served and is part of the same step.        *)

\* while (... && safetyCounter < 6)
SafetyLimit == 6

MaxTurns == 3

MaxRounds == 1

MaxTicks == 1

\* the time that passes in one step of the clock: the schema cache's lifetime
TickStep == SCHEMA_TTL_MS

\* what the user says in a turn (the last user message of the payload)
Utterances ==
    {"show a shot map for Ahly", "2023/2024", "away for Zamalek", "the team",
     "show a heatmap for the match", "who blocked the shots"}

\* the render_mplsoccer call the model makes: its chart_type and its query
ModelChart == "shot_map"

ModelQuery ==
    "select x, y from viz_match_events_with_match where team_name ilike '%Zamalek%'"

\* the tool calls of one response of the model
ToolCalls ==
    {<<"query_public_table", "get_semantic_hints">>, <<"render_mplsoccer">>}

\* the replies that ask the user a clarification question
Clarifications ==
    {"pending_question", "plan_clarification", "which_match", "scope_question",
     "alias_question"}

\* one chat turn: raw is what was said, took the pending clarification found
\* on arrival, result the kind of result handlePendingClarification returned,
\* question the text the handler continued with, reply the kind of reply sent
\* ("" while the turn runs, "other" for an answer, an image or an error), left the kind of the pending clarification in
\* pending.json when the reply was sent.
Turn(raw, took, result, question, reply, left) ==
    [raw |-> raw, took |-> took, result |-> result, question |-> question,
     reply |-> reply, left |-> left]

parseBlockedShotsPlayersPrompt(text) ==
    LET Test(low) ==
            /\ Includes(low, "block")
            /\ Includes(low, "shot")
            /\ IncludesAny(low, {"who", "which players", "players"})
    IN  Test(toLowerCase(normalizePrompt(text)))

isLearnedTemplateCompatible(prompt, template, memory) ==
    LET Teams(queryText, params) ==
            \/ Includes(queryText, "{{team_a}}")
            \/ Includes(queryText, "{{team_b}}")
            \/ /\ params.team_a # ""
               /\ params.team_b # ""
               /\ Includes(queryText, toLowerCase(params.team_a))
               /\ Includes(queryText, toLowerCase(params.team_b))
    IN  \/ ~detectMultiTeamPrompt(prompt)
        \/ Teams(toLowerCase(template.query_template),
                 extractParamsFromPrompt(prompt, memory))

\* learnedTemplates.find(source_prompt key = prompt key): its index, or 0
learnedExact(templates, raw) ==
    LET Find(key) ==
            FirstOf({i \in 1..Len(templates) :
                        normalizePromptKey(templates[i].source_prompt) = key})
    IN  Find(normalizePromptKey(raw))

\* learnedTemplates.find(every intent keyword is in the prompt key)
learnedGeneral(templates, raw) ==
    LET Find(key) ==
            FirstOf({i \in 1..Len(templates) :
                        /\ Len(templates[i].intent_keywords) > 0
                        /\ \A k \in 1..Len(templates[i].intent_keywords) :
                              Includes(key, templates[i].intent_keywords[k])})
    IN  Find(normalizePromptKey(raw))

\* /(did he|did she|did they|he|she|they|him|her|them)/i
pronounRef(raw) ==
    IncludesAny(toLowerCase(raw), {"he", "him"})

\* The branch of the handler a prompt takes after the action plan.  The
\* branches this model follows are "which_match", "learned_exact", "scope"
\* and "entity"; each other shortcut of the handler is recognised by words
\* its pattern requires and named "shortcut".
Shortcut(raw, lastQuestion, memory, templates) ==
    LET Pick(low, lq, pre, exact) ==
            IF /\ IncludesAny(low, {"arrow", "trajector", "direction"})
               /\ memory.scopes.last_pass_map # <<>>
            THEN "shortcut"
            ELSE IF Includes(lq, "shot") /\ IncludesAny(lq, {"between ", "comparing "})
            THEN "shortcut"
            ELSE IF parseBlockedShotsPlayersPrompt(raw)
            THEN IF memory.scopes.last_match = 0 /\ memory.scopes.last_teams = <<>>
                 THEN "which_match" ELSE "shortcut"
            ELSE IF Includes(lq, "shot map") /\ Includes(lq, "random match")
            THEN "shortcut"
            ELSE IF exact # 0
            THEN IF /\ templates[exact].name # ""
                    /\ templates[exact].chart_type # ""
                    /\ isLearnedTemplateCompatible(raw, templates[exact], memory)
                 THEN "learned_exact" ELSE "shortcut"
            ELSE IF learnedGeneral(templates, raw) # 0
            THEN "shortcut"
            ELSE IF Includes(pre, "pitch plot")
            THEN "shortcut"
            ELSE IF Includes(pre, "shot map") /\ findKnownTeam(pre, memory) # ""
            THEN "shortcut"
            ELSE IF needsScopeForVisual(raw)
            THEN "scope"
            ELSE IF IncludesAny(lq, {"map", "random match", "pitch plot", "chart",
                                     "concede"})
            THEN "shortcut"
            ELSE "entity"
    IN  Pick(toLowerCase(raw), toLowerCase(lastQuestion),
             toLowerCase(resolveAlias(raw, memory)), learnedExact(templates, raw))

\* what the handler has done when it replies or reaches its next await:
\* the branch taken, the memory object it holds, whether that object was
\* saved to memory.json, and the pending clarification it saved (NoPending
\* when it saved none)
Dispatched(branch, memory, saved, pending) ==
    [branch |-> branch, memory |-> memory, saved |-> saved, pending |-> pending]

\* the patterns of answerPassComparison and answerGoalsQuestion
DirectAnswerPrompt(lq) ==
    \/ Includes(lq, "average number of successful passes per match between")
    \/ Includes(lq, "how many goals did")

\* extractEntityCandidate, setLastEntity and the alias question
EntitySection(raw, lastQuestion, resolved, memory, saved) ==
    LET After(entity, held, written) ==
            IF /\ ~(resolved \/ hasKnownAlias(raw, memory))
               /\ entity # ""
               /\ ~HasAliasKey(held, entity)
            THEN Dispatched("alias_question", held, written,
                            Pending("alias", entity, raw, "", 0, ""))
            ELSE IF DirectAnswerPrompt(toLowerCase(lastQuestion))
            THEN Dispatched("shortcut", held, written, NoPending)
            ELSE Dispatched("model", held, written, NoPending)
        With(entity, lastEntity) ==
            IF entity # ""
            THEN After(entity, setLastEntity(memory, entity), TRUE)
            ELSE IF pronounRef(raw) /\ lastEntity # ""
            THEN After(entity, setLastEntity(memory, lastEntity), TRUE)
            ELSE After(entity, memory, saved)
    IN  With(extractEntityCandidate(raw), memory.scopes.last_entity)

\* the handler from extractParamsFromPrompt (after the pending clarification
\* was handled) to its reply or its next await
Planned(raw, lastQuestion, resolved, memory, templates) ==
    LET Take(branch, held, saved) ==
            IF branch = "entity"
            THEN EntitySection(raw, lastQuestion, resolved, held, saved)
            ELSE IF branch = "scope"
            THEN Dispatched("scope_question", held, saved,
                            Pending("scope", "", raw, toLowerCase(raw), 2,
                                    "Which season should I use?"))
            ELSE Dispatched(branch, held, saved, NoPending)
        Go(held, saved) ==
            IF buildActionPlan(raw, held).clarification # ""
            THEN Dispatched("plan_clarification", held, saved, NoPending)
            ELSE Take(Shortcut(raw, lastQuestion, held, templates), held, saved)
        WithTeams(params) ==
            Go(setLastTeams(memory, params.team_a, params.team_b),
               params.team_a # "" /\ params.team_b # "")
    IN  WithTeams(extractParamsFromPrompt(raw, memory))

\* fetchSchema returns the cached schema without waiting
CacheValid(cache, t) == cache.data /\ t - cache.loadedAt < SCHEMA_TTL_MS

\* buildTemplateQuery(template, {}) for the name of a learned template
\* ("" for null)
buildTemplateQuery(templates, template) ==
    LET Found(i) ==
            IF i = 0 THEN "" ELSE fillQueryTemplate(templates[i].query_template, NoParams)
    IN  Found(FirstOf({i \in 1..Len(templates) : templates[i].name = template}))

\* maybeLearnTemplateFromArgs: the learned templates it leaves
maybeLearnTemplateFromArgs(templates, chartType, query, template, prompt, memory) ==
    LET Store(effectiveQuery) ==
            IF effectiveQuery = "" THEN templates
            ELSE addLearnedTemplate(templates, chartType, effectiveQuery, prompt, memory)
    IN  IF chartType = "" \/ prompt = "" THEN templates
        ELSE IF query # "" THEN Store(query)
        ELSE IF template # "" THEN Store(buildTemplateQuery(templates, template))
        ELSE templates

\* the render_mplsoccer call of the tool loop leaves args.query as the model
\* gave it: no conceded rewrite, no team_name column added, no season table
\* swapped in
QueryKept(raw, query) ==
    /\ ~Includes(toLowerCase(raw), "concede")
    /\ ~detectMultiTeamPrompt(raw)
    /\ ~Includes(toLowerCase(query), "season_name")

Init ==
    /\ ServerInit
    /\ tpl = NoTemplateRun

\* the reply is sent and the handler returns
EndTurn(r, reply, left) ==
    /\ req' = [req EXCEPT ![r] = IdleRequest]
    /\ running' = 0
    /\ turns' = [turns EXCEPT ![req[r].turn].reply = reply,
                              ![req[r].turn].left = left]

\* A chat request arrives (in the lowest free slot): getMemory, the last user
\* message, stripGreetingPreamble, handlePendingClarification and, for a
\* result with a question, the reply; otherwise lastQuestion is chosen.
Receive(text) ==
    /\ running = 0
    /\ Len(turns) < MaxTurns
    /\ \E r \in Requests :
        /\ req[r].pc = "idle"
        /\ \A q \in Requests : req[q].pc = "idle" => r <= q
        /\ LET Took(cleaned, h) ==
                /\ pendingFile' = h.pending
                /\ memoryFile' = h.memory
                /\ IF h.result.kind = "question"
                   THEN /\ turns' = Append(turns,
                                Turn(text, pendingFile, h.result.kind, "",
                                     "pending_question", h.pending.kind))
                        /\ UNCHANGED <<req, running>>
                   ELSE LET Continue(lastQuestion) ==
                                /\ req' = [req EXCEPT ![r] =
                                    [IdleRequest EXCEPT
                                        !.pc = "dispatch",
                                        !.turn = Len(turns) + 1,
                                        !.raw = text,
                                        !.question = lastQuestion,
                                        !.resolved = h.result.resolved # "",
                                        !.memory = memoryFile]]
                                /\ turns' = Append(turns,
                                        Turn(text, pendingFile, h.result.kind,
                                             lastQuestion, "", "none"))
                        IN  /\ Continue(IF h.result.resolved # ""
                                        THEN h.result.resolved
                                        ELSE resolveAlias(cleaned, memoryFile))
                            /\ running' = r
               Cleaned(cleaned) ==
                Took(cleaned,
                     handlePendingClarification(cleaned, pendingFile, memoryFile))
           IN  Cleaned(stripGreetingPreamble(text))
    /\ UNCHANGED <<semanticFile, schemaCache, now, boot, tpl, route, refresh, http, limitRun, learnCall,
                   sql, completion, loop>>

\* the learned template found for the prompt: its name and chart_type
ExactOf(templates, raw) ==
    LET At(i) ==
            IF i = 0 THEN [name |-> "", chart |-> ""]
            ELSE [name |-> templates[i].name, chart |-> templates[i].chart_type]
    IN  At(learnedExact(templates, raw))

\* The handler from extractParamsFromPrompt to its reply or to its next await
\* (the render of a learned template, or the first call of the model).
Dispatch(r) ==
    /\ req[r].pc = "dispatch"
    /\ LET Apply(d, exact) ==
            /\ memoryFile' = IF d.saved THEN d.memory ELSE memoryFile
            /\ pendingFile' = IF d.pending = NoPending THEN pendingFile ELSE d.pending
            /\ IF d.branch \in Clarifications
               THEN EndTurn(r, d.branch,
                            IF d.pending = NoPending THEN pendingFile.kind
                            ELSE d.pending.kind)
               ELSE /\ req' = [req EXCEPT
                            ![r].pc = IF d.branch = "learned_exact" THEN "exact_render"
                                      ELSE d.branch,
                            ![r].memory = d.memory,
                            ![r].name = exact.name,
                            ![r].chart = exact.chart]
                    /\ running' = 0
                    /\ UNCHANGED turns
       IN  Apply(Planned(req[r].raw, req[r].question, req[r].resolved,
                         req[r].memory, semanticFile.learned_templates),
                 ExactOf(semanticFile.learned_templates, req[r].raw))
    /\ UNCHANGED <<semanticFile, schemaCache, now, boot, tpl, route, refresh, http, limitRun, learnCall,
                   sql, completion, loop>>

\* The tool loop from one await to the next: the tool calls that do not wait
\* (get_semantic_hints on a valid schema cache) are run, and the handler
\* stops at the await of the next call ("query", "render", "hints"), at the
\* next call of the model ("model") or at its reply ("idle").
RECURSIVE Advance(_, _, _, _, _)
Advance(raw, calls, handled, semantic, cache) ==
    IF calls = <<>>
    THEN [pc |-> IF handled THEN "idle" ELSE "model", calls |-> calls,
          semantic |-> semantic]
    ELSE IF Head(calls) = "get_semantic_hints"
    THEN IF CacheValid(cache, now)
         THEN Advance(raw, Tail(calls), handled,
                      [semantic EXCEPT !.schema_cache = now], cache)
         ELSE [pc |-> "hints", calls |-> calls, semantic |-> semantic]
    ELSE [pc |-> IF Head(calls) = "query_public_table" THEN "query"
                 ELSE IF QueryKept(raw, ModelQuery) THEN "render"
                 ELSE "shortcut",
          calls |-> calls, semantic |-> semantic]

\* the handler resumes the tool loop with the calls still to run
Resume(r, calls, handled, semantic, cache) ==
    LET Land(a) ==
            /\ semanticFile' = a.semantic
            /\ IF a.pc = "idle"
               THEN EndTurn(r, "other", pendingFile.kind)
               ELSE /\ req' = [req EXCEPT
                            ![r].pc = a.pc,
                            ![r].calls = a.calls,
                            ![r].handled = handled,
                            ![r].rounds = IF a.pc = "model" THEN @ + 1 ELSE @,
                            ![r].since = IF a.pc = "hints" THEN now ELSE 0,
                            ![r].semantic = IF a.pc = "hints" THEN a.semantic
                                            ELSE EmptySemantic]
                    /\ UNCHANGED <<running, turns>>
    IN  Land(Advance(req[r].raw, calls, handled, semantic, cache))

\* callOpenRouter returns or throws.  A response without tool calls is the
\* final answer, a throw the error reply; with tool calls the round begins
\* with fetchSchema.
ModelResponds(r) ==
    /\ running = 0
    /\ req[r].pc = "model"
    /\ \/ /\ EndTurn(r, "other", pendingFile.kind)
          /\ UNCHANGED semanticFile
       \/ /\ req[r].rounds < SafetyLimit
          /\ req[r].rounds < MaxRounds
          /\ \E calls \in ToolCalls :
                IF CacheValid(schemaCache, now)
                THEN Resume(r, calls, FALSE, semanticFile, schemaCache)
                ELSE /\ req' = [req EXCEPT ![r].pc = "schema", ![r].calls = calls,
                                           ![r].since = now]
                     /\ UNCHANGED <<semanticFile, running, turns>>
    /\ UNCHANGED <<memoryFile, pendingFile, schemaCache, now, boot, tpl, route, refresh, http, limitRun, learnCall,
                   sql, completion, loop>>

\* the fetch of fetchSchema at the start of a round returns, or fails and
\* the handler replies with the error
SchemaFetched(r) ==
    /\ running = 0
    /\ req[r].pc = "schema"
    /\ \/ LET Loaded(cache) ==
                /\ schemaCache' = cache
                /\ Resume(r, req[r].calls, FALSE, semanticFile, cache)
          IN  Loaded([data |-> TRUE, loadedAt |-> req[r].since])
       \/ /\ EndTurn(r, "other", pendingFile.kind)
          /\ UNCHANGED <<schemaCache, semanticFile>>
    /\ UNCHANGED <<memoryFile, pendingFile, now, boot, tpl, route, refresh, http, limitRun, learnCall,
                   sql, completion, loop>>

\* queryPublicTable returns
QueryReturns(r) ==
    /\ running = 0
    /\ req[r].pc = "query"
    /\ Resume(r, Tail(req[r].calls), req[r].handled, semanticFile, schemaCache)
    /\ UNCHANGED <<memoryFile, pendingFile, schemaCache, now, boot, tpl, route, refresh, http, limitRun, learnCall,
                   sql, completion, loop>>

\* the fetch of fetchSchema inside getSemanticHints returns: the document
\* loaded before the fetch is saved with the new snapshot, or, when the fetch
\* failed, nothing is saved
HintsFetched(r) ==
    /\ running = 0
    /\ req[r].pc = "hints"
    /\ \/ LET Loaded(cache) ==
                /\ schemaCache' = cache
                /\ Resume(r, Tail(req[r].calls), req[r].handled,
                          [req[r].semantic EXCEPT !.schema_cache = now], cache)
          IN  Loaded([data |-> TRUE, loadedAt |-> req[r].since])
       \/ /\ Resume(r, Tail(req[r].calls), req[r].handled, semanticFile,
                    schemaCache)
          /\ UNCHANGED schemaCache
    /\ UNCHANGED <<memoryFile, pendingFile, now, boot, tpl, route, refresh, http, limitRun, learnCall,
                   sql, completion, loop>>

\* renderMplSoccer returns an error, a result without image, or an image.
\* renderMplSoccerAndLearn (the render of a learned template) learns from the
\* image before the analysis; the tool loop learns after it.
RenderReturns(r) ==
    /\ running = 0
    /\ \/ /\ req[r].pc = "render"
          /\ \/ /\ EndTurn(r, "other", pendingFile.kind)
                /\ UNCHANGED semanticFile
             \/ Resume(r, Tail(req[r].calls), req[r].handled, semanticFile,
                       schemaCache)
             \/ /\ req' = [req EXCEPT ![r].pc = "analysis"]
                /\ UNCHANGED <<semanticFile, running, turns>>
       \/ /\ req[r].pc = "exact_render"
          /\ \/ /\ EndTurn(r, "other", pendingFile.kind)
                /\ UNCHANGED semanticFile
             \/ /\ semanticFile' = [semanticFile EXCEPT !.learned_templates =
                        maybeLearnTemplateFromArgs(@, req[r].chart, "", req[r].name,
                                                   req[r].raw, req[r].memory)]
                /\ req' = [req EXCEPT ![r].pc = "exact_analysis"]
                /\ UNCHANGED <<running, turns>>
    /\ UNCHANGED <<memoryFile, pendingFile, schemaCache, now, boot, tpl, route, refresh, http, limitRun, learnCall,
                   sql, completion, loop>>

\* analyzeVisualization returns
AnalysisReturns(r) ==
    /\ running = 0
    /\ \/ /\ req[r].pc = "analysis"
          /\ Resume(r, Tail(req[r].calls), TRUE,
                    [semanticFile EXCEPT !.learned_templates =
                        maybeLearnTemplateFromArgs(@, ModelChart, ModelQuery, "",
                                                   req[r].raw, req[r].memory)],
                    schemaCache)
       \/ /\ req[r].pc = "exact_analysis"
          /\ EndTurn(r, "other", pendingFile.kind)
          /\ UNCHANGED semanticFile
    /\ UNCHANGED <<memoryFile, pendingFile, schemaCache, now, boot, tpl, route, refresh, http, limitRun, learnCall,
                   sql, completion, loop>>

\* the fetch of refreshSchemaCacheOnStartup (entered at time 0) returns: the
\* document is loaded and saved with the snapshot, or the failure is logged
StartupRefreshed ==
    /\ running = 0
    /\ boot = "fetching"
    /\ boot' = "done"
    /\ \/ /\ schemaCache' = [data |-> TRUE, loadedAt |-> 0]
          /\ semanticFile' = [semanticFile EXCEPT !.schema_cache = now]
       \/ UNCHANGED <<schemaCache, semanticFile>>
    /\ UNCHANGED <<memoryFile, pendingFile, now, req, running, turns, tpl, route, refresh, http, limitRun,
                   learnCall,
                   sql, completion, loop>>

\* time passes, long enough for a cached schema to expire, while no request
\* is inside a synchronous section
Tick ==
    /\ running = 0
    /\ now < MaxTicks * TickStep
    /\ now' = now + TickStep
    /\ UNCHANGED <<memoryFile, pendingFile, semanticFile, schemaCache, req,
                   running, turns, boot, tpl, route, refresh, http, limitRun, learnCall,
                   sql, completion, loop>>

Next ==
    \/ \E text \in Utterances : Receive(text)
    \/ \E r \in Requests : Dispatch(r)
    \/ \E r \in Requests : ModelResponds(r)
    \/ \E r \in Requests : SchemaFetched(r)
    \/ \E r \in Requests : QueryReturns(r)
    \/ \E r \in Requests : HintsFetched(r)
    \/ \E r \in Requests : RenderReturns(r)
    \/ \E r \in Requests : AnalysisReturns(r)
    \/ StartupRefreshed
    \/ Tick

Spec == Init /\ [][Next]_vars

\* every request drawn takes a path of the handler that the actions follow
ModelledPathsOnly == \A r \in Requests : req[r].pc # "shortcut"

-----------------------------------------------------------------------------
(* Properties of the chat handler *)

\* the answer handlePendingClarification reads from what was said
AnswerOf(raw) == normalizePrompt(stripGreetingPreamble(raw))

\* the set of entries of memory.aliases
AliasEntries(memory) == {memory.aliases[i] : i \in 1..Len(memory.aliases)}

\* C1: starting with no pending clarification, a turn that opens a scope
\* clarification (two answers outstanding, season asked first) followed by
\* two turns that answer it ends with pending.json absent and with
\* memory.scopes[scopeKey] holding the first answer as season and the second
\* answer as opponent, whatever the answers say.
ScopeAnswersRecorded ==
    \A i \in 1..Len(turns) :
        ( /\ i + 2 = Len(turns)
          /\ turns[i].took.kind = "none"
          /\ turns[i].reply = "scope_question"
          /\ turns[i + 1].took.kind = "scope"
          /\ turns[i + 1].took.remaining = 2
          /\ turns[i + 1].result = "question"
          /\ turns[i + 2].took.kind = "scope"
          /\ turns[i + 2].took.remaining = 1
          /\ turns[i + 2].result = "resolved"
          /\ turns[i + 2].reply # "" )
        => /\ pendingFile = NoPending
           /\ ScopeOf(memoryFile.scopes, toLowerCase(turns[i].raw))
                = ScopeEntry(AnswerOf(turns[i + 1].raw), AnswerOf(turns[i + 2].raw))

\* C2: a turn that answers the last outstanding question of a scope
\* clarification continues with the prompt that opened the clarification,
\* not with the answer.
ScopeAnswerContinuesWithOriginal ==
    \A i \in 1..Len(turns) :
        ( /\ turns[i].took.kind = "scope"
          /\ turns[i].took.remaining = 1
          /\ turns[i].result = "resolved" )
        => Includes(toLowerCase(turns[i].question), turns[i].took.scopeKey)

\* C3: when a clarification is pending and the next turn is a new question,
\* the step that receives the turn removes pending.json, leaves memory.json
\* as it is, and handlePendingClarification returns null, so that the turn
\* goes on as a new question.
NewQuestionDiscardsPending ==
    [][ ( /\ Len(turns') = Len(turns) + 1
          /\ pendingFile # NoPending
          /\ looksLikeNewQuestion(AnswerOf(turns'[Len(turns')].raw)) )
        => /\ pendingFile' = NoPending
           /\ memoryFile' = memoryFile
           /\ turns'[Len(turns')].result = "null"
           /\ turns'[Len(turns')].reply = "" ]_vars

\* a turn that found a clarification pending and was a new question
PendingDiscarded ==
    \E i \in 1..Len(turns) :
        /\ turns[i].took.kind # "none"
        /\ looksLikeNewQuestion(AnswerOf(turns[i].raw))
        /\ turns[i].result = "null"

\* C4: a turn that answers a pending alias clarification leaves, when it
\* ends, exactly one alias entry for the pending key, of type team_name,
\* player_nickname or player_name, in memory.json, and no pending.json.
AliasAnswerRecorded ==
    \A i \in 1..Len(turns) :
        ( /\ i = Len(turns)
          /\ turns[i].took.kind = "alias"
          /\ turns[i].result = "resolved"
          /\ turns[i].reply # "" )
        => /\ pendingFile = NoPending
           /\ Cardinality({a \in AliasEntries(memoryFile) :
                            /\ a.key = trim(BeforeAnd(turns[i].took.key))
                            /\ a.type \in {"team_name", "player_nickname",
                                           "player_name"}}) = 1

\* C5: every turn whose reply is a clarification question leaves a pending
\* clarification in pending.json.
ClarificationLeavesPending ==
    \A i \in 1..Len(turns) :
        turns[i].reply \in Clarifications => turns[i].left # "none"

\* C6: an alias entry or a scope entry of memory.json, once written, stays
\* in memory.json with the same value.
MemoryEntriesKept ==
    [][ /\ AliasEntries(memoryFile) \subseteq AliasEntries(memoryFile')
        /\ \A k \in DOMAIN memoryFile.scopes.keyed :
              /\ k \in DOMAIN memoryFile'.scopes.keyed
              /\ memoryFile.scopes.keyed[k].season # ""
                    => memoryFile'.scopes.keyed[k].season
                            = memoryFile.scopes.keyed[k].season
              /\ memoryFile.scopes.keyed[k].opponent # ""
                    => memoryFile'.scopes.keyed[k].opponent
                            = memoryFile.scopes.keyed[k].opponent ]_vars

\* C7: a learned template of semantic.json is never removed or altered.
LearnedTemplatesKept ==
    [][ \A i \in 1..Len(semanticFile.learned_templates) :
            /\ i <= Len(semanticFile'.learned_templates)
            /\ semanticFile'.learned_templates[i]
                    = semanticFile.learned_templates[i] ]_vars

-----------------------------------------------------------------------------
(* The SQL gateway: hand-assembled queries and runSqlRpc *)

\* fuzzyLikePattern: the pattern /\\s+/g removes a backslash followed by one
\* or more letters s, nothing else; the characters left are joined with "%"
fuzzyLikePattern(value) ==
    LET Dropped(i) ==
            \/ Char(value, i) = "\\" /\ i < Len(value) /\ Char(value, i + 1) = "s"
            \/ /\ Char(value, i) = "s"
               /\ \E j \in 1..(i - 1) :
                    /\ Char(value, j) = "\\"
                    /\ \A k \in (j + 1)..i : Char(value, k) = "s"
        Joined(compact) ==
            Join([i \in 1..Len(compact) |->
                    IF i = 1 THEN Char(compact, i) ELSE "%" \o Char(compact, i)],
                 1, Len(compact))
    IN  Joined(Join([i \in 1..Len(value) |->
                        IF Dropped(i) THEN "" ELSE Char(value, i)],
                    1, Len(value)))

\* parseCarryMapPrompt, the player of the result, or "" for null. The text is
\* normalized, so every \s+ of the patterns stands for one space; (.+?) takes
\* the shortest text of one character or more, from the leftmost start.
parseCarryMapPrompt(text) ==
    LET Capture(norm, low, heads, tails, atEnd) ==
            LET Ends(start) ==
                    {j \in (start + 1)..(Len(low) + 1) :
                        \/ \E t \in tails : StartsAt(low, j, t)
                        \/ atEnd /\ j = Len(low) + 1}
                Starts ==
                    {i \in 1..Len(low) :
                        \E h \in heads :
                            StartsAt(low, i, h) /\ Ends(i + Len(h)) # {}}
                Taken(i) ==
                    LET Cut(h) == SubSeq(norm, i + Len(h),
                                          Least(Ends(i + Len(h))) - 1)
                    IN  Cut(CHOOSE h \in heads :
                                StartsAt(low, i, h) /\ Ends(i + Len(h)) # {})
            IN  IF Starts = {} THEN "" ELSE Taken(Least(Starts))
        Parsed(norm, low) ==
            IF ~IncludesAny(low, {"carry", "carries"}) THEN ""
            ELSE IF ~Includes(low, "map") /\ ~Includes(low, "pitch plot") THEN ""
            ELSE LET Made == Capture(norm, low,
                                     {"carries that ", "carrie that "},
                                     {" made"}, FALSE)
                 IN  IF Made # "" THEN trim(Made)
                     ELSE trim(Capture(norm, low,
                                       {"carries by ", "carrie by "},
                                       {" in ", " from "}, TRUE))
    IN  Parsed(normalizePrompt(text), toLowerCase(normalizePrompt(text)))

\* the carry map query of the chat handler for a prompt that names no season
\* (seasonClause is ""): the values interpolated between quotes, and the text
carryQuery(player) ==
    LET Built(safePlayer, fuzzyPlayer) ==
            [values |-> {safePlayer, fuzzyPlayer},
             query |->
                "select e.x, e.y from v_events_full e "
                \o "join matches m on e.match_id = m.id "
                \o "where (e.player_name ilike '%" \o safePlayer
                \o "%' or e.player_nickname ilike '%" \o safePlayer \o "%' "
                \o "or e.player_name ilike '%" \o fuzzyPlayer
                \o "%' or e.player_nickname ilike '%" \o fuzzyPlayer \o "%') "
                \o "and (e.event_name ilike '%carry%' or e.category_name ilike '%carry%' or e.event_name ilike '%dribble%' or e.category_name ilike '%dribble%')"]
    IN  Built(escapeQuotes(player), fuzzyLikePattern(player))

\* attempts = 2, the default of runSqlRpc's third parameter
DefaultAttempts == 2

\* rewriteSqlOnError. /\blimit\b[\s\S]*$/i of the first branch is a word
\* pattern; the patterns of the other branches are written with doubled
\* backslashes, so that each of them needs a backslash in the query: the
\* test of the second branch looks for the text \blimit\b, the replacements
\* of the last two for a comma, a backslash and end_x followed by a
\* backslash (taken here without the optional letters s after a backslash).
rewriteSqlOnError(query, errorMsg) ==
    LET CutLimit(q, at) ==
            trim(IF at = 0 THEN q ELSE SubSeq(q, 1, at - 1)) \o " limit 5000"
        Syntax(q, lower) ==
            IF Includes(lower, "syntax error at or near \"limit\"")
            THEN CutLimit(q, WordIndex(toLowerCase(q), "limit"))
            ELSE q
        Timeout(q, lower) ==
            IF /\ Includes(lower, "statement timeout")
               /\ ~Includes(toLowerCase(q), "\\blimit\\b")
            THEN q \o " limit 5000"
            ELSE q
        Without(q, name) ==
            ReplaceAllCI(
                ReplaceAllCI(
                    ReplaceAllCI(q, ",\\" \o name \o "\\", ", "),
                    name \o "\\,\\", ""),
                name \o "\\b", "")
        Column(q, lower, name) ==
            IF Includes(lower, "column") /\ Includes(lower, name)
            THEN Without(q, name)
            ELSE q
        Rewritten(lower) ==
            Column(Column(Timeout(Syntax(query, lower), lower), lower, "end_x"),
                   lower, "end_y")
    IN  trim(Rewritten(toLowerCase(errorMsg)))

\* the snapshot fetchSchema returns: the columns of each table
SchemaSnapshot ==
    [table \in {"viz_match_events", "matches", "v_events_full"} |->
        IF table = "matches" THEN {"id", "season_name", "home_score", "away_score"}
        ELSE {"x", "y", "end_x", "end_y", "match_id", "player_name", "team_name"}]

\* validateColumnsInSql: /from\\s+([a-zA-Z0-9_]+)/i needs the text from, a
\* backslash, one or more letters s and a name character; a query without it
\* is accepted at once (tableMatch is null). Only that case is defined here:
\* no query of the model holds a backslash.
validateColumnsInSql(query, schema) ==
    LET TableMatch(low) ==
            \E i \in 1..Len(low) :
                /\ StartsAt(low, i, "from\\s")
                /\ i + 6 <= Len(low)
                /\ Char(low, i + 6) \in WordChars
    IN  CASE ~TableMatch(toLowerCase(query)) -> TRUE

\* a call of runSqlRpc that cleans the query and goes on without looking
\* for a semicolon
runSqlRpcUnchecked(call, query, attempts) ==
    [call EXCEPT !.pc = "schema", !.query = trim(query), !.attempts = attempts]

\* runSqlRpc up to its first await: the call whose frame holds the cleaned
\* query waits for fetchSchema, or has thrown. A rewritten query enters here
\* again with one attempt less.
runSqlRpc(call, query, attempts) ==
    LET Checked(cleaned) ==
            IF Includes(cleaned, ";")
            THEN [call EXCEPT !.pc = "thrown",
                              !.thrown = "Multiple statements are not allowed"]
            ELSE [call EXCEPT !.pc = "schema", !.query = cleaned,
                              !.attempts = attempts]
        Stripped(trimmed) ==
            SubSeq(trimmed, 1,
                   LastOf({i \in 1..Len(trimmed) : Char(trimmed, i) # ";"}))
    IN  IF query = ""
        THEN [call EXCEPT !.pc = "thrown", !.thrown = "Query is required."]
        ELSE Checked(Stripped(trim(query)))

\* the chat handler answers a carry map prompt: carryQuery goes unchanged
\* through renderMplSoccerAndLearn and renderMplSoccer (the prompt names one
\* team at most and no "last N") to runSqlRpc
CarryMap(lastQuestion) ==
    /\ sql.pc = "idle"
    /\ parseCarryMapPrompt(lastQuestion) # ""
    /\ LET Sent(built) ==
            runSqlRpc([NoSqlCall EXCEPT !.values = built.values],
                      built.query, DefaultAttempts)
       IN  sql' = Sent(carryQuery(parseCarryMapPrompt(lastQuestion)))
    /\ UNCHANGED <<memoryFile, pendingFile, semanticFile, schemaCache, now,
                   req, running, turns, boot, tpl, route, refresh, http, limitRun, learnCall, completion, loop>>

\* the tool loop runs a run_sql_rpc call with the query the model wrote
RunSqlTool(query) ==
    /\ sql.pc = "idle"
    /\ sql' = runSqlRpc(NoSqlCall, query, DefaultAttempts)
    /\ UNCHANGED <<memoryFile, pendingFile, semanticFile, schemaCache, now,
                   req, running, turns, boot, tpl, route, refresh, http, limitRun, learnCall, completion, loop>>

\* fetchSchema returns inside runSqlRpc: the query is validated and posted,
\* or the call throws
SqlSchemaFetched ==
    /\ sql.pc = "schema"
    /\ \/ sql' = IF validateColumnsInSql(sql.query, SchemaSnapshot)
                 THEN [sql EXCEPT !.pc = "gateway",
                                  !.posted = Append(@, sql.query)]
                 ELSE [sql EXCEPT
                          !.pc = "thrown",
                          !.thrown = "Query references unknown columns. Check schema."]
       \/ sql' = [sql EXCEPT !.pc = "thrown", !.thrown = "Schema fetch failed."]
    /\ UNCHANGED <<memoryFile, pendingFile, semanticFile, schemaCache, now,
                   req, running, turns, boot, tpl, route, refresh, http, limitRun, learnCall, completion, loop>>

\* rpc/run_sql_readonly answers: the rows, or a failure whose text goes to
\* rewriteSqlOnError while attempts are left
GatewayResponds(ok, err) ==
    /\ sql.pc = "gateway"
    /\ LET Failed(call, rewritten) ==
            IF call.attempts > 0 /\ rewritten # "" /\ rewritten # call.query
            THEN runSqlRpc(call, rewritten, call.attempts - 1)
            ELSE [call EXCEPT !.pc = "thrown", !.thrown = err]
       IN  sql' = IF ok THEN [sql EXCEPT !.pc = "returned"]
                  ELSE Failed([sql EXCEPT !.errors = Append(@, err)],
                              rewriteSqlOnError(sql.query, err))
    /\ UNCHANGED <<memoryFile, pendingFile, semanticFile, schemaCache, now,
                   req, running, turns, boot, tpl, route, refresh, http, limitRun, learnCall, completion, loop>>

\* the prompts the carry map branch is exercised with
CarryPrompts ==
    {pre \o who \o post :
        pre \in {"show a map of carries by ", "Map the carries that "},
        who \in {"Salah", "O'Neil", "Ali Maaloul", "N'Golo Kante"},
        post \in {"", " made", " in the league"}}

\* the queries run_sql_rpc is exercised with
SqlQueries ==
    {"select x, y from viz_match_events limit 10",
     "select x, y, end_x, end_y from viz_match_events",
     "SELECT team_name FROM viz_match_events WHERE x > 80 LIMIT 20;",
     "select nope from nowhere",
     "select x from matches",
     " select id from matches ;; ",
     "select id from matches; delete from matches",
     ""}

\* the failure texts rpc/run_sql_readonly is exercised with
GatewayErrors ==
    {"{\"message\":\"syntax error at or near \\\"limit\\\"\"}",
     "{\"message\":\"canceling statement due to statement timeout\"}",
     "{\"message\":\"column \\\"end_x\\\" does not exist\"}",
     "{\"message\":\"relation \\\"nowhere\\\" does not exist\"}"}

SqlNext ==
    \/ \E lastQuestion \in CarryPrompts : CarryMap(lastQuestion)
    \/ \E query \in SqlQueries : RunSqlTool(query)
    \/ SqlSchemaFetched
    \/ GatewayResponds(TRUE, "")
    \/ \E err \in GatewayErrors : GatewayResponds(FALSE, err)

SqlSpec == Init /\ [][SqlNext]_vars

\* C11: every value a hand-assembled query interpolates between single
\* quotes has each of its single quotes doubled: the quotes of the value
\* stand in runs of even length.
InterpolatedValuesEscaped ==
    \A value \in sql.values :
        \A i \in 1..Len(value) :
            (Char(value, i) = "'" /\ (i = 1 \/ Char(value, i - 1) # "'"))
                => \E n \in 1..Len(value) :
                        /\ n % 2 = 0
                        /\ \A k \in i..(i + n - 1) :
                                k <= Len(value) /\ Char(value, k) = "'"
                        /\ (i + n > Len(value) \/ Char(value, i + n) # "'")

\* C12: every query posted to rpc/run_sql_readonly reads a table of the
\* schema snapshot, and each plain name of its select list is a column of
\* that table.
PostedQueriesKnown ==
    \A n \in 1..Len(sql.posted) :
        LET Known(low, from) ==
                LET Names(table, list) ==
                        /\ table \in DOMAIN SchemaSnapshot
                        /\ \A i \in 1..Len(list) :
                            (/\ (i = 1 \/ ~Char(list, i - 1) \in WordChars \cup {"."})
                             /\ Char(list, i) \in LowerChars)
                                => \E j \in i..Len(list) :
                                    /\ j = Len(list) \/ Char(list, j + 1) \notin WordChars
                                    /\ \A k \in i..j : Char(list, k) \in WordChars
                                    /\ \/ j < Len(list) /\ Char(list, j + 1) = "."
                                       \/ SubSeq(list, i, j) \in SchemaSnapshot[table]
                    TableEnd ==
                        Least({j \in (from + 6)..(Len(low) + 1) :
                                 j = Len(low) + 1 \/ Char(low, j) \notin WordChars})
                IN  Names(SubSeq(low, from + 6, TableEnd - 1),
                          SubSeq(low, 8, from - 1))
        IN  Known(toLowerCase(sql.posted[n]),
                  IndexFrom(toLowerCase(sql.posted[n]), " from ", 1))

\* C13: no query posted to rpc/run_sql_readonly holds a semicolon; a call
\* that ended with 'Multiple statements are not allowed' posted nothing and
\* was answered by no gateway error, so that none was rewritten or retried.
NoSemicolonPosted ==
    /\ \A n \in 1..Len(sql.posted) : ~Includes(sql.posted[n], ";")
    /\ sql.thrown = "Multiple statements are not allowed"
        => sql.posted = <<>> /\ sql.errors = <<>>

\* a query of two statements was refused
StatementsRefused == sql.thrown = "Multiple statements are not allowed"

\* C14: one call of runSqlRpc rewrites the query once at most and posts to
\* the gateway twice at most.
AtMostOneRewrite ==
    /\ Len(sql.posted) <= 2
    /\ Cardinality({sql.posted[n] : n \in 1..Len(sql.posted)}) <= 2

\* C15: when the gateway rejects a query that selects end_x with an unknown
\* column error naming end_x, the call that has ended posted exactly one
\* more query, in which neither end_x nor end_y is left.
EndColumnsDropped ==
    (/\ sql.pc \in {"returned", "thrown"}
     /\ Len(sql.errors) >= 1
     /\ Includes(sql.errors[1], "column \\\"end_x\\\"")
     /\ Includes(sql.posted[1], "end_x"))
        => /\ Len(sql.posted) = 2
           /\ ~Includes(sql.posted[2], "end_x")
           /\ ~Includes(sql.posted[2], "end_y")

-----------------------------------------------------------------------------
(* The completion call: callOpenRouter *)

\* retries = 2 and fallbackModel, the defaults of callOpenRouter's parameters
DefaultRetries == 2
DefaultFallbackModel == "moonshotai/kimi-k2:free"

\* a call that switches to the fallback model whatever model the payload
\* names
callOpenRouterAlwaysFallback(call, status, error) ==
    LET Throw(logged, name) ==
            [logged EXCEPT !.pc = "thrown",
                           !.thrown = IF logged.outer # "" THEN "Error" ELSE name]
        Failed(logged, message) ==
            IF (status >= 500 \/ status = 429) /\ logged.fallbackModel # ""
            THEN [logged EXCEPT !.model = logged.fallbackModel,
                                !.fallbackModel = "",
                                !.outer = message,
                                !.requests = Append(@, logged.fallbackModel),
                                !.switched = @ + 1]
            ELSE Throw(logged, "Error")
        Caught(logged) ==
            IF logged.retries > 0 /\ error = "AbortError"
            THEN [logged EXCEPT !.retries = @ - 1,
                                !.fallbackModel = DefaultFallbackModel,
                                !.requests = Append(@, logged.model)]
            ELSE Throw(logged, error)
        Ended(logged) ==
            IF status = 0 THEN Caught(logged)
            ELSE IF status < 200 \/ status > 299
                 THEN Failed(logged, "status " \o ToString(status))
                 ELSE [logged EXCEPT !.pc = "returned"]
    IN  Ended([call EXCEPT !.outcomes =
                              Append(@, [status |-> status, error |-> error])])

\* callOpenRouter when the request of the innermost call ends: status is
\* response.status, or 0 with error the name of what callWithTimeout threw.
\* A call made from the try block of the fallback branch has outer set to
\* the message of the response that made it: whatever it throws is thrown
\* again as new Error(message), which the catch block does not retry.
callOpenRouter(call, status, error) ==
    LET Throw(logged, name) ==
            [logged EXCEPT !.pc = "thrown",
                           !.thrown = IF logged.outer # "" THEN "Error" ELSE name]
        Failed(logged, message) ==
            IF /\ status >= 500 \/ status = 429
               /\ logged.fallbackModel # ""
               /\ logged.model # logged.fallbackModel
            THEN [logged EXCEPT !.model = logged.fallbackModel,
                                !.fallbackModel = "",
                                !.outer = message,
                                !.requests = Append(@, logged.fallbackModel),
                                !.switched = @ + 1]
            ELSE Throw(logged, "Error")
        Caught(logged) ==
            IF logged.retries > 0 /\ error = "AbortError"
            THEN [logged EXCEPT !.retries = @ - 1,
                                !.fallbackModel = DefaultFallbackModel,
                                !.requests = Append(@, logged.model)]
            ELSE Throw(logged, error)
        Ended(logged) ==
            IF status = 0 THEN Caught(logged)
            ELSE IF status < 200 \/ status > 299
                 THEN Failed(logged, "status " \o ToString(status))
                 ELSE [logged EXCEPT !.pc = "returned"]
    IN  Ended([call EXCEPT !.outcomes =
                              Append(@, [status |-> status, error |-> error])])

\* the planner calls callOpenRouter(payload, apiKey) with the model of the
\* chat request
PlannerCalls(model) ==
    /\ completion.pc = "idle"
    /\ completion' =
        [NoCompletion EXCEPT !.pc = "request", !.payload = model,
                             !.model = model, !.retries = DefaultRetries,
                             !.fallbackModel = DefaultFallbackModel,
                             !.requests = <<model>>]
    /\ UNCHANGED <<memoryFile, pendingFile, semanticFile, schemaCache, now,
                   req, running, turns, boot, tpl, route, refresh, http, limitRun, learnCall, sql, loop>>

\* openrouter.ai answers the request with a status
CompletionResponds(status) ==
    /\ completion.pc = "request"
    /\ completion' = callOpenRouter(completion, status, "")
    /\ UNCHANGED <<memoryFile, pendingFile, semanticFile, schemaCache, now,
                   req, running, turns, boot, tpl, route, refresh, http, limitRun, learnCall, sql, loop>>

\* callWithTimeout throws: the timer of 120000 ms aborted the request, or the
\* fetch failed
CompletionFails(error) ==
    /\ completion.pc = "request"
    /\ completion' = callOpenRouter(completion, 0, error)
    /\ UNCHANGED <<memoryFile, pendingFile, semanticFile, schemaCache, now,
                   req, running, turns, boot, tpl, route, refresh, http, limitRun, learnCall, sql, loop>>

CompletionNext ==
    \/ \E model \in {"openai/gpt-4o-mini", DefaultFallbackModel} :
            PlannerCalls(model)
    \/ \E status \in {200, 400, 429, 500, 503} : CompletionResponds(status)
    \/ \E error \in {"AbortError", "TypeError"} : CompletionFails(error)

CompletionSpec == Init /\ [][CompletionNext]_vars

\* every request ends: the response arrives, the fetch fails, or the timer
\* of callWithTimeout aborts it
CompletionLive ==
    /\ CompletionSpec
    /\ WF_vars(\E status \in {200, 400, 429, 500, 503} : CompletionResponds(status))
    /\ WF_vars(\E error \in {"AbortError", "TypeError"} : CompletionFails(error))

\* C16: after two aborts in a row no further request is issued.
AtMostOneTimeoutRetry ==
    \A i \in 1..(Len(completion.outcomes) - 1) :
        (/\ completion.outcomes[i].error = "AbortError"
         /\ completion.outcomes[i + 1].error = "AbortError")
            => Len(completion.requests) = i + 1

\* C17: a call chain switches to the fallback model once at most, and never
\* when the payload names the fallback model or once the fallback model is
\* the one called; it issues four requests at most, and once started it ends
\* with a response or a thrown error.
FallbackOnceAndTerminates ==
    /\ [](/\ completion.switched <= 1
          /\ completion.payload = DefaultFallbackModel => completion.switched = 0
          /\ \A i \in 1..Len(completion.requests) :
                completion.requests[i] = DefaultFallbackModel
                    => \A j \in i..Len(completion.requests) :
                            completion.requests[j] = DefaultFallbackModel
          /\ Len(completion.requests) <= DefaultRetries + 2)
    /\ (completion.pc = "request") ~> (completion.pc \in {"returned", "thrown"})

\* the fallback call was retried after a timeout, then answered with a 5xx
\* status, and the chain ended there
FallbackRetriedThenFailed ==
    /\ completion.pc = "thrown"
    /\ completion.switched = 1
    /\ \E i \in 1..(Len(completion.outcomes) - 1) :
        /\ completion.requests[i] = DefaultFallbackModel
        /\ completion.outcomes[i].error = "AbortError"
        /\ completion.outcomes[i + 1].status >= 500

-----------------------------------------------------------------------------
(* The tool loop of one chat request, call by call *)

\* a while statement that looks at the response only
LoopWhileToolCalls(response, safetyCounter) == response # <<>>

\* the test of the while statement
LoopContinues(response, safetyCounter) ==
    response # <<>> /\ safetyCounter < SafetyLimit

\* a tool result put at the head of the list
PushToolResultFirst(messages, call) ==
    <<[role |-> "tool", ids |-> <<call.id>>]>> \o messages

\* messages.push({role: "tool", tool_call_id: call.id, ...})
PushToolResult(messages, call) ==
    Append(messages, [role |-> "tool", ids |-> <<call.id>>])

\* sendAssistantReply, or sendJson with the last response or with the error
LoopReplied(l, status, text, image) ==
    [l EXCEPT !.pc = "replied",
              !.reply = [status |-> status, text |-> text, image |-> image]]

\* the while statement is reached with a response: the request is answered
\* with it, or its message joins the list and fetchSchema is awaited
LoopTurn(l, response) ==
    IF LoopContinues(response, l.safetyCounter)
    THEN [l EXCEPT !.pc = "schema",
                   !.calls = response,
                   !.next = 1,
                   !.rounds = @ + 1,
                   !.messages =
                       Append(@, [role |-> "assistant",
                                  ids |-> [i \in 1..Len(response) |->
                                              response[i].id]])]
    ELSE LoopReplied([l EXCEPT !.calls = response], 200, "response", 0)

\* the for statement from the call at l.next to its next await: get_schema is
\* answered from the schema at hand; after the last call the visualization
\* is reported or the model is called again
RECURSIVE RunCalls(_)
RunCalls(l) ==
    IF l.next > Len(l.calls)
    THEN IF l.handled
         THEN LoopReplied(l, 200, "Visualization ready.", l.image)
         ELSE [l EXCEPT !.pc = "model", !.phase = "next",
                        !.completions = @ + 1]
    ELSE IF l.calls[l.next].name = "get_schema"
         THEN RunCalls([l EXCEPT
                          !.executed = Append(@, l.calls[l.next].id),
                          !.messages = PushToolResult(@, l.calls[l.next]),
                          !.next = @ + 1])
         ELSE [l EXCEPT !.pc = "tool",
                        !.executed = Append(@, l.calls[l.next].id)]

\* the chat handler reaches the planner's first callOpenRouter
PlannerStarts(lastQuestionRaw) ==
    /\ loop.pc = "idle"
    /\ loop' = [NoLoop EXCEPT !.pc = "model", !.phase = "first",
                              !.visual = isVisualizationPrompt(lastQuestionRaw),
                              !.messages = <<[role |-> "user", ids |-> <<>>]>>,
                              !.completions = 1]
    /\ UNCHANGED <<memoryFile, pendingFile, semanticFile, schemaCache, now,
                   req, running, turns, boot, tpl, route, refresh, http, limitRun, learnCall, sql, completion>>

\* callOpenRouter returns the model's turn, whose tool calls are named by
\* names, or throws. After a turn without tool calls inside the loop, a
\* visualization prompt gets one more call that forces render_mplsoccer.
LoopModelReturns(ok, names) ==
    /\ loop.pc = "model"
    /\ LET Response ==
            [i \in 1..Len(names) |->
                [id |-> Len(loop.executed) + i, name |-> names[i]]]
           Counted(l) == [l EXCEPT !.safetyCounter = @ + 1]
       IN  loop' =
            IF ~ok THEN LoopReplied(loop, 500, "Proxy error", 0)
            ELSE IF loop.phase = "first" THEN LoopTurn(loop, Response)
            ELSE IF /\ loop.phase = "next"
                    /\ names = <<>>
                    /\ ~loop.handled
                    /\ loop.visual
                 THEN [loop EXCEPT !.phase = "forced", !.completions = @ + 1]
                 ELSE LoopTurn(Counted(loop), Response)
    /\ UNCHANGED <<memoryFile, pendingFile, semanticFile, schemaCache, now,
                   req, running, turns, boot, tpl, route, refresh, http, limitRun, learnCall, sql, completion>>

\* fetchSchema returns at the top of a round, or throws
LoopSchemaFetched(ok) ==
    /\ loop.pc = "schema"
    /\ loop' = IF ok THEN RunCalls(loop)
               ELSE LoopReplied(loop, 500, "Failed to fetch schema from Supabase.", 0)
    /\ UNCHANGED <<memoryFile, pendingFile, semanticFile, schemaCache, now,
                   req, running, turns, boot, tpl, route, refresh, http, limitRun, learnCall, sql, completion>>

\* the tool awaited returns: rows or an exception for run_sql_rpc; an
\* error, an image or neither for render_mplsoccer
ToolReturns(outcome) ==
    /\ loop.pc = "tool"
    /\ LET Call == loop.calls[loop.next]
           Pushed == RunCalls([loop EXCEPT !.messages = PushToolResult(@, Call),
                                           !.next = @ + 1])
       IN  loop' =
            IF Call.name = "render_mplsoccer"
            THEN CASE outcome = "error" ->
                        LoopReplied(loop, 200, "Visualization failed", 0)
                   [] outcome = "image" -> [loop EXCEPT !.pc = "analysis"]
                   [] OTHER -> Pushed
            ELSE IF outcome = "error"
                 THEN LoopReplied(loop, 500, "SQL RPC failed.", 0)
                 ELSE Pushed
    /\ UNCHANGED <<memoryFile, pendingFile, semanticFile, schemaCache, now,
                   req, running, turns, boot, tpl, route, refresh, http, limitRun, learnCall, sql, completion>>

\* analyzeVisualization returns: the image is kept, the tool result joins
\* the messages and the for statement goes on
LoopAnalysisReturns ==
    /\ loop.pc = "analysis"
    /\ loop' = RunCalls([loop EXCEPT
                            !.image = loop.calls[loop.next].id,
                            !.handled = TRUE,
                            !.messages = PushToolResult(@, loop.calls[loop.next]),
                            !.next = @ + 1])
    /\ UNCHANGED <<memoryFile, pendingFile, semanticFile, schemaCache, now,
                   req, running, turns, boot, tpl, route, refresh, http, limitRun, learnCall, sql, completion>>

\* the tool calls a turn of the model is exercised with
ModelTurns ==
    {<<>>, <<"run_sql_rpc">>, <<"get_schema", "render_mplsoccer">>,
     <<"render_mplsoccer", "run_sql_rpc">>}

LoopNext ==
    \/ \E raw \in {"show a shot map for Ahly", "who blocked the shots"} :
            PlannerStarts(raw)
    \/ \E ok \in BOOLEAN, names \in ModelTurns : LoopModelReturns(ok, names)
    \/ \E ok \in BOOLEAN : LoopSchemaFetched(ok)
    \/ \E outcome \in {"error", "image", "rows"} : ToolReturns(outcome)
    \/ LoopAnalysisReturns

LoopSpec == Init /\ [][LoopNext]_vars

\* every await of the handler ends: each external call returns or fails
LoopLive ==
    /\ LoopSpec
    /\ WF_vars(\E ok \in BOOLEAN, names \in ModelTurns : LoopModelReturns(ok, names))
    /\ WF_vars(\E ok \in BOOLEAN : LoopSchemaFetched(ok))
    /\ WF_vars(\E outcome \in {"error", "image", "rows"} : ToolReturns(outcome))
    /\ WF_vars(LoopAnalysisReturns)

\* C18: the body of the tool loop is entered six times at most, and a request
\* that reached the planner is answered.
LoopBoundedAndAnswers ==
    /\ [](loop.rounds <= SafetyLimit)
    /\ (loop.pc # "idle") ~> (loop.pc = "replied")

\* the sixth round ended with a turn that asks for tools again, and the
\* request was answered with it
AnsweredAfterSixRounds ==
    /\ loop.pc = "replied"
    /\ loop.rounds = SafetyLimit
    /\ loop.safetyCounter = SafetyLimit
    /\ loop.calls # <<>>
    /\ loop.reply.status = 200

NoCallAfterImage ==
    loop.image # 0 => loop.executed[Len(loop.executed)] = loop.image

-----------------------------------------------------------------------------
(* The last-N limit of a chart query *)

\* the value of a run of decimal digits, as Number reads it
RECURSIVE NumberOf(_)
NumberOf(digits) ==
    IF digits = "" THEN 0
    ELSE 10 * NumberOf(SubSeq(digits, 1, Len(digits) - 1))
            + (CHOOSE d \in 0..9 : Char(Digits, d + 1) = Char(digits, Len(digits)))

\* where the run of characters of a set that begins at k ends: the place
\* after its last character (k itself when the run is empty)
RunEnd(s, k, set) ==
    Least({j \in k..(Len(s) + 1) : j = Len(s) + 1 \/ Char(s, j) \notin set})

\* normalized.match(/last\s+(\d+)\s+(shots?|passes?|events?|matches?)/i):
\* the digits of the leftmost match, or "" when there is none
LastMatch(normalized) ==
    LET Noun(low, c) ==
            \E noun \in {"shot", "passe", "event", "matche"} : StartsAt(low, c, noun)
        Counted(low, a, b) == b > a /\ RunEnd(low, b, SpaceChars) > b
                                    /\ Noun(low, RunEnd(low, b, SpaceChars))
        Spaced(low, i, a) == a > i + 4 /\ Counted(low, a, RunEnd(low, a, DigitChars))
        At(low, i) == StartsAt(low, i, "last")
                         /\ Spaced(low, i, RunEnd(low, i + 4, SpaceChars))
        Group(low, a) == SubSeq(low, a, RunEnd(low, a, DigitChars) - 1)
        Found(low, i) ==
            IF i = 0 THEN "" ELSE Group(low, RunEnd(low, i + 4, SpaceChars))
        Lowered(low) == Found(low, FirstOf({i \in 1..Len(low) : At(low, i)}))
    IN  Lowered(toLowerCase(normalized))

\* ensureSelectIncludes(query, column).  The pattern of the source,
\* /select\\s+(distinct\\s+)?/i, is written with doubled backslashes: it
\* matches the text select\ followed by letters s, and a query without a
\* backslash is returned as it stands.
ensureSelectIncludes(query, column) ==
    LET Distinct(low, p) ==
            IF StartsAt(low, p, "distinct\\") /\ RunEnd(low, p + 9, {"s"}) > p + 9
            THEN RunEnd(low, p + 9, {"s"}) ELSE p
        Insert(insertPos) ==
            SubSeq(query, 1, insertPos - 1) \o column \o ", " \o From(query, insertPos)
        Match(low, m) ==
            IF m = 0 THEN query ELSE Insert(Distinct(low, RunEnd(low, m + 7, {"s"})))
        Target(low, targetIndex) ==
            IF targetIndex = 0 THEN query
            ELSE Match(low, FirstOf({m \in targetIndex..Len(low) :
                                        /\ StartsAt(low, m, "select\\")
                                        /\ RunEnd(low, m + 7, {"s"}) > m + 7}))
        Lowered(low) ==
            IF Includes(low, toLowerCase(column)) THEN query
            ELSE IF StartsAt(low, 1, "with")
            THEN Target(low, LastOf({i \in 1..Len(low) : StartsAt(low, i, "select")}))
            ELSE Target(low, IndexFrom(low, "select", 1))
    IN  IF query = "" \/ column = "" THEN query ELSE Lowered(toLowerCase(query))

ensureTeamNameInQuery(query) ==
    LET Lowered(low) ==
            IF /\ ~Includes(low, "team_name")
               /\ Includes(low, "from viz_match_events")
            THEN ensureSelectIncludes(query, "team_name")
            ELSE query
    IN  Lowered(toLowerCase(query))

\* enforceLastNLimit without its tests for a limit or a window already in
\* the query: the limit is appended whenever the prompt asks for the last N
enforceLastNLimitUntested(query, prompt, seriesField) ==
    LET Matched(digits) ==
            IF digits = "" THEN query ELSE query \o " limit " \o digits
    IN  IF query = "" \/ prompt = "" THEN query
        ELSE Matched(LastMatch(normalizePrompt(prompt)))

\* enforceLastNLimit(query, prompt, seriesField); seriesField is "" when the
\* caller gives none
enforceLastNLimit(query, prompt, seriesField) ==
    LET Ranked(limitedQuery, partitionField, lastN) ==
            "with ranked as (" \o limitedQuery \o ") select * from ("
                \o "select *, row_number() over (partition by " \o partitionField
                \o " order by date_time desc) as rn from ranked"
                \o ") as limited where rn <= " \o ToString(lastN)
        Windowed(limitedQuery, partitionField, lastN) ==
            IF /\ Includes(toLowerCase(limitedQuery), partitionField)
               /\ Includes(toLowerCase(limitedQuery), "date_time")
            THEN Ranked(limitedQuery, partitionField, lastN)
            ELSE query \o " limit " \o ToString(lastN)
        Dated(lower, limitedQuery, partitionField, lastN) ==
            Windowed(IF Includes(lower, "date_time") THEN limitedQuery
                     ELSE ensureSelectIncludes(limitedQuery, "date_time"),
                     partitionField, lastN)
        Multi(lower, partitionField, lastN) ==
            Dated(lower,
                  IF Includes(lower, partitionField) THEN query
                  ELSE ensureTeamNameInQuery(query),
                  partitionField, lastN)
        Limited(lower, lastN) ==
            IF lastN <= 0 THEN query
            ELSE IF Includes(lower, " limit ") THEN query
            ELSE IF \E i \in 1..Len(lower) :
                       /\ StartsAt(lower, i, "row_number")
                       /\ StartsAt(lower, RunEnd(lower, i + 10, SpaceChars), "(")
            THEN query
            ELSE IF detectMultiTeamPrompt(prompt)
            THEN Multi(lower, IF seriesField = "player_name" THEN "player_name"
                              ELSE "team_name", lastN)
            ELSE query \o " limit " \o ToString(lastN)
        Matched(digits) ==
            IF digits = "" THEN query
            ELSE Limited(toLowerCase(query), NumberOf(digits))
    IN  IF query = "" \/ prompt = "" THEN query
        ELSE Matched(LastMatch(normalizePrompt(prompt)))

-----------------------------------------------------------------------------
(* One chat turn that finds no pending clarification, from its question to
   its reply: the plan, the shot comparison, the learned templates, the
   direct answer and the planner *)

\* what parseShotsComparePrompt returns; team_a is "" for null
NoCompare == [team_a |-> "", team_b |-> "", match_specific |-> FALSE]

\* parseShotsComparePrompt with its second pattern alone, which matches no
\* text without a backslash
parseShotsCompareVersusOnly(text) == NoCompare

\* parseShotsComparePrompt(text).  Its second pattern,
\* /(.+?)\\s+(?:vs\\.?|versus|against)\\s+(.+)$/i, needs a backslash in the
\* text: on a text without one only the first pattern can match.
parseShotsComparePrompt(text) ==
    LET Named(normalized, teamA, teamB) ==
            IF teamA = "" \/ teamB = "" THEN NoCompare
            ELSE [team_a |-> teamA, team_b |-> teamB,
                  match_specific |-> Includes(toLowerCase(normalized), "match")]
        Teams(normalized, groups) ==
            IF groups = <<>> THEN NoCompare
            ELSE Named(normalized, cleanEntityName(groups[1]),
                       cleanEntityName(groups[2]))
        Normalized(normalized) ==
            IF ~Includes(toLowerCase(normalized), "shot") THEN NoCompare
            ELSE Teams(normalized, CompareMatch(normalized))
    IN  Normalized(normalizePrompt(text))

\* renderMplSoccerAndLearn before its await: the series field of a
\* multi-team prompt, team_name asked of the query, the last-N limit
PrepareRender(args, prompt) ==
    LET Limited(series, query) ==
            [args EXCEPT !.series_split_field = series,
                         !.query = enforceLastNLimit(query, prompt, series)]
        Split(series) ==
            Limited(series,
                    IF series = "team_name" /\ args.query # ""
                    THEN ensureTeamNameInQuery(args.query) ELSE args.query)
    IN  Split(IF args.series_split_field = "" /\ detectMultiTeamPrompt(prompt)
              THEN "team_name" ELSE args.series_split_field)

\* buildTemplateQuery("shots_by_team", { team_a, team_b })
shotsByTeamQuery(teamA, teamB) ==
    LET Filter(a, b) ==
            IF a # "" /\ b # ""
            THEN "(team_name ilike '%" \o a \o "%' or team_name ilike '%" \o b \o "%')"
            ELSE IF a # "" THEN "team_name ilike '%" \o a \o "%'"
            ELSE IF b # "" THEN "team_name ilike '%" \o b \o "%'"
            ELSE "team_name is not null"
    IN  "select team_name, x, y from viz_match_events_with_match "
            \o "where event_name in ('Shoot','Shoot Location','Penalty') and "
            \o Filter(escapeQuotes(teamA), escapeQuotes(teamB))

\* params[p] of the parameters read from a prompt, "" for an absent one
ParamValue(params, p) ==
    IF p = "team_a" THEN params.team_a
    ELSE IF p = "team_b" THEN params.team_b
    ELSE IF p = "team" THEN params.team
    ELSE IF p = "season" THEN params.season
    ELSE IF p = "last_n" /\ params.last_n # NoNumber THEN ToString(params.last_n)
    ELSE ""

\* the test of the keyword path without its test of the declared parameters
KeywordUsableUnfilled(templates, raw, memory) ==
    LET Usable(i) ==
            IF /\ i # 0
               /\ templates[i].query_template # ""
               /\ templates[i].chart_type # ""
               /\ isLearnedTemplateCompatible(raw, templates[i], memory)
            THEN i ELSE 0
    IN  Usable(learnedGeneral(templates, raw))

\* the learned template the keyword path renders for a prompt: its index in
\* learned_templates, or 0 when the path renders none
KeywordUsable(templates, raw, memory) ==
    LET Filled(i, params) ==
            IF \E k \in 1..Len(templates[i].params) :
                   ParamValue(params, templates[i].params[k]) = ""
            THEN 0 ELSE i
        Usable(i) ==
            IF /\ i # 0
               /\ templates[i].query_template # ""
               /\ templates[i].chart_type # ""
               /\ isLearnedTemplateCompatible(raw, templates[i], memory)
            THEN Filled(i, extractParamsFromPrompt(raw, memory)) ELSE 0
    IN  Usable(learnedGeneral(templates, raw))

\* the learned template the exact path renders for a prompt, or 0
ExactUsable(templates, raw, memory) ==
    LET Usable(i) ==
            IF /\ i # 0
               /\ templates[i].name # ""
               /\ templates[i].chart_type # ""
               /\ isLearnedTemplateCompatible(raw, templates[i], memory)
            THEN i ELSE 0
    IN  Usable(learnedExact(templates, raw))

\* question.match(/how many goals did (.+?) score\\??/i) of
\* answerGoalsQuestion: the trimmed group, or "" when there is no match
goalsPlayer(question) ==
    LET Group(b, e) == IF e = 0 THEN "" ELSE trim(SubSeq(question, b, e - 1))
        Begun(low, b) ==
            Group(b, FirstOf({e \in (b + 1)..Len(low) : StartsAt(low, e, " score")}))
        Found(low, i) == IF i = 0 THEN "" ELSE Begun(low, i + 19)
        Lowered(low) == Found(low, IndexFrom(low, "how many goals did ", 1))
    IN  Lowered(toLowerCase(question))

\* the branches before the learned templates that are recognised and not
\* followed: the arrows of the last pass map, the players who blocked
\* shots, the shot map of a random match
EarlyShortcut(raw, lastQuestion, memory) ==
    \/ /\ IncludesAny(toLowerCase(raw), {"arrow", "trajector", "direction"})
       /\ memory.scopes.last_pass_map # <<>>
    \/ parseBlockedShotsPlayersPrompt(raw)
    \/ /\ Includes(toLowerCase(lastQuestion), "shot map")
       /\ Includes(toLowerCase(lastQuestion), "random match")

\* the turn and the pending clarification the handler has saved when it
\* replies or reaches its next await
Routed(turn, pending) == [turn |-> turn, pending |-> pending]

Replied(turn, path, status, reply) ==
    [turn EXCEPT !.stage = "done", !.paths = Append(@, path),
                 !.status = status, !.reply = reply]

Awaiting(turn, stage, path) ==
    [turn EXCEPT !.stage = stage, !.paths = Append(@, path)]

\* the handler calls renderMplSoccerAndLearn and waits for the renderer
Rendering(turn, path, used, args) ==
    [Awaiting(turn, "render", path) EXCEPT
        !.used = used, !.args = PrepareRender(args, turn.raw),
        !.renders = @ + 1]

\* the handler calls callOpenRouter with the plan and waits for the model
Planning(turn) ==
    [Awaiting(turn, "planner", "planner") EXCEPT !.completions = @ + 1]

\* the handler after the learned templates: the branches recognised and not
\* followed, the scope question, the alias question, the direct answer and
\* the planner
RouteRest(turn) ==
    LET Direct(held) ==
            IF Includes(toLowerCase(held.question),
                        "average number of successful passes per match between")
            THEN Routed(Replied(held, "shortcut", 200, ""), NoPending)
            ELSE IF goalsPlayer(held.question) # ""
            THEN Routed(Awaiting(held, "answer", "direct"), NoPending)
            ELSE Routed(Planning(held), NoPending)
        Entity(e) ==
            IF e.branch = "alias_question"
            THEN Routed(Replied([turn EXCEPT !.memory = e.memory],
                                "alias_question", 200,
                                "When you say \"" \o e.pending.key
                                    \o "\", is that a team, a player's name, or a nickname?"),
                        e.pending)
            ELSE Direct([turn EXCEPT !.memory = e.memory])
        Branch(b) ==
            IF b = "scope"
            THEN Routed(Replied(turn, "scope_question", 200,
                                "Which season should I use?"),
                        Pending("scope", "", turn.raw, toLowerCase(turn.raw), 2,
                                "Which season should I use?"))
            ELSE IF b = "entity"
            THEN Entity(EntitySection(turn.raw, turn.question, FALSE,
                                      turn.memory, FALSE))
            ELSE Routed(Replied(turn, b, 200, ""), NoPending)
    IN  Branch(Shortcut(turn.raw, turn.question, turn.memory, <<>>))

\* the handler from getMemory to its reply or its first await, for a request
\* that finds no pending clarification
RouteStart(raw, asked, memory, templates) ==
    LET Keyword(turn, i) ==
            Rendering(turn, "learned_keyword", i,
                RenderArgs(templates[i].chart_type,
                           fillQueryTemplate(templates[i].query_template,
                                             extractParamsFromPrompt(raw, turn.memory)),
                           "", <<>>, ""))
        Stored(turn, exact, keyword) ==
            IF exact # 0
            THEN Routed(Rendering(turn, "learned_exact", exact,
                            RenderArgs(templates[exact].chart_type, "",
                                       templates[exact].name, <<>>, "")),
                        NoPending)
            ELSE IF keyword # 0 THEN Routed(Keyword(turn, keyword), NoPending)
            ELSE RouteRest(turn)
        Compare(turn, compare) ==
            IF compare.team_a = ""
            THEN Stored(turn, ExactUsable(templates, raw, turn.memory),
                        KeywordUsable(templates, raw, turn.memory))
            ELSE IF compare.match_specific
            THEN Routed(Replied(turn, "shortcut", 200, ""), NoPending)
            ELSE Routed(Rendering(turn, "shots_compare", 0,
                            RenderArgs("shot_map", "", "shots_by_team",
                                       <<compare.team_a, compare.team_b>>,
                                       "team_name")),
                        NoPending)
        Teams(turn, compare) ==
            Compare([turn EXCEPT !.memory =
                        setLastTeams(@, compare.team_a, compare.team_b)],
                    compare)
        Clarify(turn) ==
            IF turn.plan.clarification # ""
            THEN Routed(Replied(turn, "plan_clarification", 200,
                                turn.plan.clarification), NoPending)
            ELSE IF EarlyShortcut(raw, turn.question, turn.memory)
            THEN Routed(Replied(turn, "shortcut", 200, ""), NoPending)
            ELSE Teams(turn, parseShotsComparePrompt(turn.question))
        Held(lastQuestion, held) ==
            Clarify([NoRoute EXCEPT !.asked = asked + 1, !.raw = raw,
                                    !.question = lastQuestion,
                                    !.plan = buildActionPlan(raw, held),
                                    !.memory = held])
        Based(lastQuestion, params) ==
            Held(lastQuestion, setLastTeams(memory, params.team_a, params.team_b))
    IN  Based(resolveAlias(stripGreetingPreamble(raw), memory),
              extractParamsFromPrompt(raw, memory))

\* what the user asks in a turn
RoutePrompts ==
    {"how many goals did Mohamed Salah score?",
     "show a shot map comparing Ahly and Zamalek",
     "last 5 shots for Ahly",
     "shots of Ahly against Zamalek",
     "goals scored by each team",
     "all shots this season",
     "all shots this season ?",
     "Ahly shots this season",
     "show a heatmap for the match",
     "heatmap for the match against Zamalek",
     "heatmap for the match in 2023/2024",
     "heatmap for match id 12",
     "heatmap for the match against Zamalek in 2023/2024",
     "Good evening. shot map of goals",
     "show a shot map for Ahly",
     "hey! what can you do"}

\* the query of the render_mplsoccer call the model makes
RouteQueries ==
    {"select x, y from viz_match_events_with_match where team_name ilike '%Ahly%'",
     "select x, y from viz_match_events_with_match where team_name ilike '%Al Ahly%'",
     "select x, y from viz_match_events_with_match where team_name ilike '%{{team_a}}%'"}

\* memory.json when the first turn arrives
RouteMemories ==
    { EmptyMemory,
      [EmptyMemory EXCEPT !.aliases = <<Alias("Ahly", "team_name", "Al Ahly")>>],
      [EmptyMemory EXCEPT !.scopes =
            SetScope(@, "show a shot map for ahly",
                     ScopeEntry("2023/2024", "the team"))] }

\* the players and the goal counts the gateway returns
RoutePlayers == {"Mohamed Salah"}
RouteCounts == {0, 7}

\* the turns followed
MaxAsks == 2

\* the server after construction, with the memory.json an earlier session
\* left
RouteInit ==
    /\ memoryFile \in RouteMemories
    /\ pendingFile = NoPending
    /\ semanticFile = EmptySemantic
    /\ schemaCache = EmptySchemaCache
    /\ now = 0
    /\ req = [r \in Requests |-> IdleRequest]
    /\ running = 0
    /\ turns = <<>>
    /\ boot = "fetching"
    /\ tpl = NoTemplateRun
    /\ learnCall = NoLearnCall
    /\ sql = NoSqlCall
    /\ completion = NoCompletion
    /\ loop = NoLoop
    /\ route = NoRoute
    /\ refresh = NoRefresh
    /\ http = NoHttp
    /\ limitRun = NoLimitRun

\* what the handler leaves when it replies or waits
RouteSettle(routed) ==
    /\ route' = routed.turn
    /\ memoryFile' = routed.turn.memory
    /\ pendingFile' = routed.pending

\* a chat request arrives while no clarification is pending
RouteReceive(raw) ==
    /\ route.stage \in {"idle", "done"}
    /\ route.asked < MaxAsks
    /\ pendingFile = NoPending
    /\ RouteSettle(RouteStart(raw, route.asked, memoryFile,
                              semanticFile.learned_templates))
    /\ UNCHANGED <<semanticFile, schemaCache, now, req, running, turns, boot,
                   tpl, refresh, http, limitRun, learnCall, sql, completion, loop>>

\* renderMplSoccer returns to renderMplSoccerAndLearn with an image or
\* without one, or throws: an image is learnt from, and the branch replies
\* or, on the keyword path without an image, the handler goes on
RouteRenderReturns(outcome) ==
    /\ route.stage = "render"
    /\ LET path == route.paths[Len(route.paths)]
           Learnt(templates) ==
                IF outcome # "image" THEN templates
                ELSE IF path = "shots_compare"
                THEN addLearnedTemplate(templates, route.args.chart_type,
                        shotsByTeamQuery(route.args.template_vars[1],
                                         route.args.template_vars[2]),
                        route.raw, route.memory)
                ELSE maybeLearnTemplateFromArgs(templates, route.args.chart_type,
                        route.args.query, route.args.template, route.raw,
                        route.memory)
           After(turn) ==
                IF outcome = "throws"
                THEN Routed(Replied(turn, "error", 500, "Proxy error"), NoPending)
                ELSE IF path = "shots_compare"
                THEN Routed(Replied(turn, "replied", 200,
                                "Shot map comparing " \o turn.args.template_vars[1]
                                    \o " vs " \o turn.args.template_vars[2] \o "."),
                            NoPending)
                ELSE IF path = "learned_exact" \/ outcome = "image"
                THEN Routed(Replied(turn, "replied", 200,
                                "Visualization ready. See the image above."),
                            NoPending)
                ELSE RouteRest(turn)
       IN  /\ RouteSettle(After(route))
           /\ semanticFile' = [semanticFile EXCEPT !.learned_templates = Learnt(@)]
    /\ UNCHANGED <<schemaCache, now, req, running, turns, boot,
                   tpl, refresh, http, limitRun, learnCall, sql, completion, loop>>

\* answerGoalsQuestion returns: a fetch of the gateway was refused (null, and
\* the handler goes on to the planner), no player was found, or the count
\* was read; or a fetch throws
RouteGatewayReturns(outcome, name, count) ==
    /\ route.stage = "answer"
    /\ LET After(turn) ==
                IF outcome = "throws"
                THEN Routed(Replied(turn, "error", 500, "fetch failed"), NoPending)
                ELSE IF outcome = "refused"
                THEN Routed(Planning(turn), NoPending)
                ELSE IF outcome = "none"
                THEN Routed(Replied(turn, "replied", 200,
                                "I couldn't find a player matching \""
                                    \o goalsPlayer(turn.question)
                                    \o "\" in the database."),
                            NoPending)
                ELSE Routed(Replied(turn, "replied", 200,
                                name \o " has scored " \o ToString(count)
                                    \o " goals in the database."),
                            NoPending)
       IN  RouteSettle(After(route))
    /\ UNCHANGED <<semanticFile, schemaCache, now, req, running, turns, boot,
                   tpl, refresh, http, limitRun, learnCall, sql, completion, loop>>

\* the planner's call of callOpenRouter returns: the model answers in words,
\* or it calls render_mplsoccer with a query, the chart is drawn and the
\* query is learnt; or the call throws
RoutePlannerReturns(answer) ==
    /\ route.stage = "planner"
    /\ \/ /\ answer = "content"
          /\ RouteSettle(Routed(Replied(route, "replied", 200, "content"), NoPending))
          /\ UNCHANGED semanticFile
       \/ /\ answer = "throws"
          /\ RouteSettle(Routed(Replied(route, "error", 500, "Proxy error"), NoPending))
          /\ UNCHANGED semanticFile
       \/ /\ answer \in RouteQueries
          /\ QueryKept(route.raw, answer)
          /\ RouteSettle(Routed(
                Replied([route EXCEPT !.renders = @ + 1,
                                      !.args = RenderArgs(ModelChart, answer, "", <<>>, "")],
                        "replied", 200,
                        "Visualization ready. Plot generated from query results. See the image above."),
                NoPending))
          /\ semanticFile' = [semanticFile EXCEPT !.learned_templates =
                maybeLearnTemplateFromArgs(@, ModelChart, answer, "", route.raw,
                                           route.memory)]
    /\ UNCHANGED <<schemaCache, now, req, running, turns, boot,
                   tpl, refresh, http, limitRun, learnCall, sql, completion, loop>>

RouteNext ==
    \/ \E raw \in RoutePrompts : RouteReceive(raw)
    \/ \E outcome \in {"image", "none", "throws"} : RouteRenderReturns(outcome)
    \/ \E outcome \in {"count", "none", "refused", "throws"},
          name \in RoutePlayers, count \in RouteCounts :
            RouteGatewayReturns(outcome, name, count)
    \/ \E answer \in {"content", "throws"} \cup RouteQueries :
            RoutePlannerReturns(answer)

RouteSpec == RouteInit /\ [][RouteNext]_vars

\* the goals question of the turns followed
GoalsPrompt == "how many goals did Mohamed Salah score?"

\* C21: a goals question that finds no pending clarification is answered by
\* the direct-answer path whatever memory.json and the learned templates
\* hold: no planning call of callOpenRouter is made, the renderer is not
\* called, and the reply is the goals sentence or the not-found sentence.
GoalsAnsweredDirectly ==
    (route.raw = GoalsPrompt /\ route.stage = "done" /\ route.status = 200)
        => /\ route.completions = 0
           /\ route.renders = 0
           /\ \/ \E name \in RoutePlayers, count \in RouteCounts :
                    route.reply = name \o " has scored " \o ToString(count)
                                       \o " goals in the database."
              \/ route.reply = "I couldn't find a player matching \""
                                  \o goalsPlayer(GoalsPrompt) \o "\" in the database."

\* the shot comparison of the turns followed
ComparePrompt == "show a shot map comparing Ahly and Zamalek"

LastShotsPrompt == "last 5 shots for Ahly"

\* C23: for "last N shots for <team>" (one team, N > 0) and a query with no
\* limit and no row_number window, the query enforceLastNLimit gives the
\* renderer partitions by team_name, orders by date_time descending and
\* keeps the rows with rn <= N.
LastShotsWindowed ==
    (route.raw = LastShotsPrompt /\ route.used # 0 /\ route.args.query # "")
        => /\ Includes(route.args.query,
                       "partition by team_name order by date_time desc")
           /\ Includes(route.args.query, "where rn <= 5")

\* C24: for a prompt of visual intent that mentions a match, buildActionPlan
\* asks a clarification exactly when the prompt has none of a season
\* (YYYY/YYYY), a match id and an opponent; with one of them it asks none.
MatchClarifiedIffNothingGiven ==
    (/\ route.stage # "idle"
     /\ route.plan.intent = "visual"
     /\ Includes(toLowerCase(route.raw), "match"))
        => (route.plan.clarification # ""
              <=> ~(\/ HasSeasonText(route.raw)
                    \/ HasMatchId(toLowerCase(route.raw))
                    \/ detectMultiTeamPrompt(route.raw)))

\* C25: buildActionPlan gives every prompt one intent: visual when the
\* prompt has visualization vocabulary, else database when it has an
\* analytics noun, else general; the forced tool is render_mplsoccer for
\* visual, run_sql_rpc for database and none for general.
PlanByVocabulary ==
    LET Intent(low) ==
            IF IncludesAny(low, {"shot map", "pass map", "heatmap", "pass network",
                                 "pitch plot", "pitch", "visual", "chart"})
            THEN "visual"
            ELSE IF IncludesAny(low, {"goal", "shot", "pass", "assist", "xg",
                                      "block", "tackle", "interception", "foul",
                                      "card", "corner", "match", "season", "team",
                                      "player", "nickname"})
            THEN "database"
            ELSE "general"
    IN  route.stage # "idle"
            => /\ route.plan.intent = Intent(toLowerCase(route.raw))
               /\ route.plan.forceTool =
                    (CASE route.plan.intent = "visual" -> "render_mplsoccer"
                       [] route.plan.intent = "database" -> "run_sql_rpc"
                       [] route.plan.intent = "general" -> "")

\* a prompt with a greeting and both vocabularies was planned as visual after
\* a general and before a database prompt could be
PlannedEachIntent ==
    /\ route.raw = "Good evening. shot map of goals"
    /\ route.plan.intent = "visual"
    /\ route.plan.forceTool = "render_mplsoccer"
    /\ route.asked = 2

\* C26: a learned template is rendered through the keyword path only when
\* the exact path renders none for the turn, each of its intent keywords is
\* a substring of the normalized prompt, it is compatible with the prompt,
\* and each parameter it declares has a value among the parameters read
\* from the prompt.
KeywordReuseGuarded ==
    LET Guarded(template, key, params) ==
            /\ ExactUsable(semanticFile.learned_templates, route.raw, route.memory) = 0
            /\ Len(template.intent_keywords) > 0
            /\ \A k \in 1..Len(template.intent_keywords) :
                    Includes(key, template.intent_keywords[k])
            /\ isLearnedTemplateCompatible(route.raw, template, route.memory)
            /\ \A k \in 1..Len(template.params) :
                    ParamValue(params, template.params[k]) # ""
    IN  (route.stage = "render" /\ route.paths = <<"learned_keyword">>)
            => Guarded(semanticFile.learned_templates[route.used],
                       normalizePromptKey(route.raw),
                       extractParamsFromPrompt(route.raw, route.memory))

\* a template that declares a parameter was rendered through the keyword
\* path
KeywordReuseWithParams ==
    /\ route.stage = "render"
    /\ route.paths = <<"learned_keyword">>
    /\ Len(semanticFile.learned_templates[route.used].params) > 0

\* C27: for a multi-team prompt a learned template is accepted only if its
\* query has both {{team_a}} and {{team_b}}, or both team names; a template
\* with one of the two placeholders alone is rejected.
OneSidedTemplateRejected ==
    LET Both(query, params) ==
            \/ /\ Includes(query, "{{team_a}}")
               /\ Includes(query, "{{team_b}}")
            \/ /\ params.team_a # ""
               /\ params.team_b # ""
               /\ Includes(query, toLowerCase(params.team_a))
               /\ Includes(query, toLowerCase(params.team_b))
    IN  (route.used # 0 /\ route.stage = "render" /\ detectMultiTeamPrompt(route.raw))
            => Both(toLowerCase(semanticFile.learned_templates[route.used].query_template),
                    extractParamsFromPrompt(route.raw, route.memory))

-----------------------------------------------------------------------------
(* The memoized schema: calls of fetchSchema that overlap in time *)

\* the calls of fetchSchema followed
MaxCalls == 3

\* the clock readings followed after the start
MaxClock == 4

\* the time between two clock readings: half the life of a snapshot
RefreshStep == SCHEMA_TTL_MS \div 2

\* a snapshot dated by the arrival of the response
SchemaLoadedOnArrival(began, t) == [data |-> TRUE, loadedAt |-> t]

\* schemaCache after "schemaCache.data = schema; schemaCache.loadedAt = now"
\* of a call that read Date.now() = began on entry and whose response
\* arrived at time t: the snapshot, dated by the start of the call
SchemaLoaded(began, t) == [data |-> TRUE, loadedAt |-> began]

\* a call of fetchSchema: began is the Date.now() read on entry, seen the
\* schemaCache found on entry, pc "fetching" while the gateway is awaited and
\* then "returned" or "failed", gateway whether the gateway was called, at
\* the time the call ended, served the start of the fetch that produced the
\* snapshot returned (NoTime when none), before and left the schemaCache
\* just before and just after the call ended
SchemaCall(began, seen, pc, gateway, at, served, before, left) ==
    [began |-> began, seen |-> seen, pc |-> pc, gateway |-> gateway, at |-> at,
     served |-> served, before |-> before, left |-> left]

SchemaInit ==
    /\ memoryFile = EmptyMemory
    /\ pendingFile = NoPending
    /\ semanticFile = EmptySemantic
    /\ schemaCache = EmptySchemaCache
    /\ now = 0
    /\ req = [r \in Requests |-> IdleRequest]
    /\ running = 0
    /\ turns = <<>>
    /\ boot = "done"
    /\ tpl = NoTemplateRun
    /\ learnCall = NoLearnCall
    /\ sql = NoSqlCall
    /\ completion = NoCompletion
    /\ loop = NoLoop
    /\ route = NoRoute
    /\ refresh = NoRefresh
    /\ http = NoHttp
    /\ limitRun = NoLimitRun

\* fetchSchema is entered: the memoized snapshot is returned at once, or the
\* gateway is called and awaited
FetchSchemaCalled ==
    /\ Len(refresh.calls) < MaxCalls
    /\ refresh' = [refresh EXCEPT !.calls = Append(@,
            IF CacheValid(schemaCache, now)
            THEN SchemaCall(now, schemaCache, "returned", FALSE, now,
                            refresh.origin, schemaCache, schemaCache)
            ELSE SchemaCall(now, schemaCache, "fetching", TRUE, NoTime,
                            NoTime, schemaCache, schemaCache))]
    /\ UNCHANGED <<memoryFile, pendingFile, semanticFile, schemaCache, now, req,
                   running, turns, boot, tpl, learnCall, sql, completion, loop,
                   route, http, limitRun>>

\* the gateway answers call i: the snapshot is stored and returned, or the
\* response is not ok (or its body does not parse) and the call throws
FetchSchemaReturns(i, ok) ==
    /\ i \in 1..Len(refresh.calls)
    /\ refresh.calls[i].pc = "fetching"
    /\ LET Ended(call, cache) ==
            /\ schemaCache' = cache
            /\ refresh' = [calls |-> [refresh.calls EXCEPT ![i] = call],
                           origin |-> IF ok THEN refresh.calls[i].began
                                      ELSE refresh.origin]
           Began(began) ==
            IF ok
            THEN Ended(SchemaCall(began, refresh.calls[i].seen, "returned", TRUE,
                                  now, began, schemaCache, SchemaLoaded(began, now)),
                       SchemaLoaded(began, now))
            ELSE Ended(SchemaCall(began, refresh.calls[i].seen, "failed", TRUE,
                                  now, NoTime, schemaCache, schemaCache),
                       schemaCache)
       IN  Began(refresh.calls[i].began)
    /\ UNCHANGED <<memoryFile, pendingFile, semanticFile, now, req,
                   running, turns, boot, tpl, learnCall, sql, completion, loop,
                   route, http, limitRun>>

\* time passes
Elapse ==
    /\ now < MaxClock * RefreshStep
    /\ now' = now + RefreshStep
    /\ UNCHANGED <<memoryFile, pendingFile, semanticFile, schemaCache, req,
                   running, turns, boot, tpl, learnCall, sql, completion, loop,
                   route, refresh, http, limitRun>>

SchemaNext ==
    \/ FetchSchemaCalled
    \/ \E i \in 1..MaxCalls, ok \in BOOLEAN : FetchSchemaReturns(i, ok)
    \/ Elapse

SchemaSpec == SchemaInit /\ [][SchemaNext]_vars

\* C29: a call of fetchSchema is answered from the memo, without a call of
\* the gateway, exactly when it finds a snapshot whose loadedAt is less than
\* SCHEMA_TTL_MS before its entry, and otherwise calls the gateway; a call
\* whose fetch fails leaves schemaCache as it was; and a snapshot answered
\* from the memo, whatever the order in which overlapping calls ended, comes
\* from a fetch that began less than SCHEMA_TTL_MS before
SchemaMemoByTTL ==
    \A i \in 1..Len(refresh.calls) :
        LET call == refresh.calls[i]
            fresh == call.seen.data /\ call.began - call.seen.loadedAt < 5 * 60 * 1000
        IN  /\ call.gateway = ~fresh
            /\ (~call.gateway) => /\ call.pc = "returned"
                                  /\ call.at = call.began
                                  /\ call.served # NoTime
                                  /\ call.at - call.served < 5 * 60 * 1000
            /\ call.pc = "failed" => call.left = call.before
            /\ (call.pc = "returned" /\ call.gateway) => call.served = call.began

\* an older call ended after a younger one that began during it, a later
\* call was answered from the memo it left, and another call failed with a
\* snapshot in the memo
SchemaRefreshedConcurrently ==
    /\ Len(refresh.calls) = 3
    /\ refresh.calls[1].pc = "returned" /\ refresh.calls[1].gateway
    /\ refresh.calls[2].gateway /\ refresh.calls[2].pc # "fetching"
    /\ refresh.calls[1].began < refresh.calls[2].began
    /\ refresh.calls[2].at < refresh.calls[1].at
    /\ ~refresh.calls[3].gateway
    /\ refresh.calls[3].began >= refresh.calls[1].at

-----------------------------------------------------------------------------
(* The request boundary of POST /api/chat: responses written and exceptions *)

\* the chat requests followed
MaxRequests == 2

\* the rounds of tool calls followed for one request (the source stops a
\* request at six)
MaxToolRounds == 2

\* the id of the most recent match of two teams, as runSqlRpc returns it
MatchIds == {12}

HttpPrompts ==
    {"compare shots in the match between Ahly and Zamalek",
     "show a shot map comparing Ahly and Zamalek",
     "how many goals did Mohamed Salah score?",
     "show a heatmap for the match",
     "hey! what can you do"}

\* a chat request: pc is "body" while the body is read, the await the
\* handler stands at ("pick", "match_render", "render", "answer", "planner",
\* "tools") or "done"; raw lastQuestionRaw, memory the object the handler
\* holds, teams the teams of a comparison, matchId the match picked, rounds
\* safetyCounter, responses the responses written on res in order, thrown
\* whether an exception was thrown while the request was handled, rejected
\* whether the promise of the "end" listener was rejected
HttpRequest(raw, json) ==
    [pc |-> "body", raw |-> raw, json |-> json, memory |-> EmptyMemory,
     teams |-> <<>>, matchId |-> 0, rounds |-> 0, responses |-> <<>>,
     thrown |-> FALSE, rejected |-> FALSE]

\* setLastMatchContext: the memory it saves (nothing without a match id)
setLastMatchContext(memory, matchId) ==
    IF matchId = 0 THEN memory ELSE [memory EXCEPT !.scopes.last_match = matchId]

\* sendJson on a response nothing was written on, writeHead and end, after
\* which the handler returns: error is payload.error ("" for a payload
\* without that key, as sendAssistantReply and the model's response have)
sendJson(request, status, error) ==
    [request EXCEPT !.pc = "done",
                    !.responses = Append(@, [status |-> status, error |-> error])]

\* the catch of the "end" listener, sendJson(res, 500, { error: error.message
\* || "Proxy error" }): on a response already sent res.writeHead throws
\* ERR_HTTP_HEADERS_SENT inside the catch block, nothing is written, and the
\* promise of the async listener is rejected with nobody to handle it
Caught(request, message) ==
    IF request.responses = <<>>
    THEN [sendJson(request, 500, message) EXCEPT !.thrown = TRUE]
    ELSE [request EXCEPT !.pc = "done", !.thrown = TRUE, !.rejected = TRUE]

HttpInit ==
    /\ memoryFile = EmptyMemory
    /\ pendingFile = NoPending
    /\ semanticFile = EmptySemantic
    /\ schemaCache = EmptySchemaCache
    /\ now = 0
    /\ req = [r \in Requests |-> IdleRequest]
    /\ running = 0
    /\ turns = <<>>
    /\ boot = "done"
    /\ tpl = NoTemplateRun
    /\ learnCall = NoLearnCall
    /\ sql = NoSqlCall
    /\ completion = NoCompletion
    /\ loop = NoLoop
    /\ route = NoRoute
    /\ refresh = NoRefresh
    /\ http = NoHttp
    /\ limitRun = NoLimitRun

\* the request i is replaced by what the step made of it; a rejection
\* nobody handles ends the process (the default since Node 15) or is only
\* reported (older runtimes, --unhandled-rejections=warn)
HttpStep(i, request, exits) ==
    /\ http' = [requests |-> [http.requests EXCEPT ![i] = request],
                exited |-> request.rejected /\ exits]

\* proxyChat is called: without the keys of .env it replies at once,
\* otherwise it registers the listeners of the body
HttpReceive(raw, json, keys) ==
    /\ ~http.exited
    /\ Len(http.requests) < MaxRequests
    /\ http' = [http EXCEPT !.requests = Append(@,
            IF keys THEN HttpRequest(raw, json)
            ELSE sendJson(HttpRequest(raw, json), 500,
                          "Missing OPENROUTER_API_KEY in .env"))]
    /\ UNCHANGED <<memoryFile, pendingFile, semanticFile, schemaCache, now, req,
                   running, turns, boot, tpl, learnCall, sql, completion, loop,
                   route, refresh, limitRun>>

\* the "end" listener up to its reply or its first await: the body is
\* parsed, the memory read, the teams of the prompt saved (disk tells
\* whether fs.writeFileSync succeeds), the plan's clarification sent, the
\* branch chosen
HttpBodyEnds(i, disk) ==
    /\ ~http.exited
    /\ i \in 1..Len(http.requests)
    /\ http.requests[i].pc = "body"
    /\ pendingFile = NoPending
    /\ LET request == http.requests[i]
           Settle(next, memory) ==
                /\ HttpStep(i, next, FALSE)
                /\ memoryFile' = memory
           Branch(turn, compare, saves) ==
                IF saves /\ disk = "full"
                THEN Settle(Caught(request, "ENOSPC: no space left on device, write"),
                            memoryFile)
                ELSE IF turn.stage = "done" /\ turn.paths = <<"plan_clarification">>
                THEN Settle(sendJson(request, 200, ""), turn.memory)
                ELSE IF compare.team_a # "" /\ compare.match_specific
                THEN Settle([request EXCEPT !.pc = "pick", !.memory = turn.memory,
                                !.teams = <<compare.team_a, compare.team_b>>],
                            turn.memory)
                ELSE Settle([request EXCEPT !.pc = turn.stage, !.memory = turn.memory],
                            turn.memory)
           Chosen(turn, compare, params) ==
                Branch(turn, compare,
                       \/ params.team_a # "" /\ params.team_b # ""
                       \/ compare.team_a # "" /\ turn.plan.clarification = "")
           Held(turn, params) ==
                Chosen(turn, parseShotsComparePrompt(turn.question), params)
       IN  IF ~request.json
           THEN Settle(sendJson(request, 400, "Invalid JSON"), memoryFile)
           ELSE Held(RouteStart(request.raw, 0, memoryFile, <<>>).turn,
                        extractParamsFromPrompt(request.raw, memoryFile))
    /\ UNCHANGED <<pendingFile, semanticFile, schemaCache, now, req,
                   running, turns, boot, tpl, learnCall, sql, completion, loop,
                   route, refresh, limitRun>>

\* the call the handler of request i awaits returns or throws, and the
\* handler runs to its reply or its next await
HttpAwaitReturns(i, outcome, disk, exits) ==
    /\ ~http.exited
    /\ i \in 1..Len(http.requests)
    /\ LET request == http.requests[i]
           Settle(next, memory) ==
                /\ HttpStep(i, next, exits)
                /\ memoryFile' = memory
           \* sendAssistantReply, then setLastMatchContext
           ReplyThenSave(replied, memory) ==
                IF disk = "full"
                THEN Settle(Caught(replied, "ENOSPC: no space left on device, write"),
                            memoryFile)
                ELSE Settle(replied, memory)
           Pick(matchId) ==
                Settle([request EXCEPT !.pc = "match_render", !.matchId = matchId],
                       memoryFile)
       IN  \/ /\ outcome = "throws"
              /\ request.pc \in {"pick", "match_render", "render", "answer",
                                 "planner", "tools"}
              /\ Settle(Caught(request, "fetch failed"), memoryFile)
           \/ /\ request.pc = "pick"
              /\ \/ /\ outcome = "none"
                    /\ Settle(sendJson(request, 200, ""),
                            memoryFile)
                 \/ /\ outcome = "value"
                    /\ \E matchId \in MatchIds : Pick(matchId)
           \/ /\ request.pc = "match_render"
              /\ outcome \in {"none", "value"}
              /\ ReplyThenSave(
                    sendJson(request, 200, ""),
                    setLastMatchContext(request.memory, request.matchId))
           \/ /\ request.pc = "render"
              /\ outcome \in {"none", "value"}
              /\ Settle(sendJson(request, 200, ""), memoryFile)
           \/ /\ request.pc = "answer"
              /\ \/ /\ outcome = "value"
                    /\ Settle(sendJson(request, 200, ""), memoryFile)
                 \/ /\ outcome = "none"
                    /\ Settle([request EXCEPT !.pc = "planner"], memoryFile)
           \/ /\ request.pc = "planner"
              /\ \/ /\ outcome = "none"
                    /\ Settle(sendJson(request, 200, ""), memoryFile)
                 \/ /\ outcome = "value"
                    /\ request.rounds < MaxToolRounds
                    /\ Settle([request EXCEPT !.pc = "tools"], memoryFile)
           \/ /\ request.pc = "tools"
              /\ outcome = "value"
              /\ Settle([request EXCEPT !.pc = "planner", !.rounds = @ + 1],
                        memoryFile)
    /\ UNCHANGED <<pendingFile, semanticFile, schemaCache, now, req,
                   running, turns, boot, tpl, learnCall, sql, completion, loop,
                   route, refresh, limitRun>>

HttpNext ==
    \/ \E raw \in HttpPrompts, json \in BOOLEAN, keys \in BOOLEAN :
            HttpReceive(raw, json, keys)
    \/ \E i \in 1..MaxRequests, disk \in {"ok", "full"} : HttpBodyEnds(i, disk)
    \/ \E i \in 1..MaxRequests, outcome \in {"value", "none", "throws"},
          disk \in {"ok", "full"}, exits \in BOOLEAN :
            HttpAwaitReturns(i, outcome, disk, exits)

HttpSpec == HttpInit /\ [][HttpNext]_vars

\* C28: every chat request whose handling has ended was written exactly one
\* response; when an exception was thrown while it was handled, that
\* response has an error status and a text; and no exception, also one
\* thrown after the reply was written, leaves a rejected promise nobody
\* handles or ends the process
OneResponseOrError ==
    /\ ~http.exited
    /\ \A i \in 1..Len(http.requests) :
        LET request == http.requests[i]
        IN  /\ ~request.rejected
            /\ request.pc = "done" =>
                /\ Len(request.responses) = 1
                /\ request.thrown =>
                    /\ request.responses[1].status >= 400
                    /\ request.responses[1].error # ""

-----------------------------------------------------------------------------
(* The alias question and the turns that answer a clarification *)

\* C30: a turn that handlePendingClarification took as the answer to the
\* pending clarification it found, an alias clarification or a scope
\* clarification with any number of answers outstanding, is never replied to
\* with the alias question
NoAliasOnAnsweringTurn ==
    \A i \in 1..Len(turns) :
        ( /\ turns[i].took.kind \in {"alias", "scope"}
          /\ turns[i].result \in {"question", "resolved"} )
        => turns[i].reply # "alias_question"

-----------------------------------------------------------------------------
(* The learned templates over the chat requests *)

\* the learned templates held in a semantic.json document
TemplatesIn(semantic) ==
    {semantic.learned_templates[i] : i \in 1..Len(semantic.learned_templates)}

\* C31: semantic.json gains a learned template (holds after a step an entry
\* it did not hold before) only in the step of a request whose chart render
\* has just returned image data: the render of a learned template returning
\* its image, or the analysis of the image a tool call rendered.  A render
\* that returns an error or no image, or throws, adds nothing.
LearnsOnlyFromImage ==
    [][TemplatesIn(semanticFile') \ TemplatesIn(semanticFile) # {}
        => \E r \in Requests :
                \/ req[r].pc = "exact_render" /\ req'[r].pc = "exact_analysis"
                \/ req[r].pc = "analysis" /\ req'[r].pc # "analysis"]_vars

-----------------------------------------------------------------------------
(* The scope recorded for a prompt *)

ScopePrompt == "show a shot map for Ahly"

\* C32: a turn that repeats a prompt whose scope clarification was fully
\* answered (memory.json holds a season and an opponent under the prompt's
\* scope key) is not asked for the season again and leaves no scope
\* clarification pending
ScopeNotAskedAgain ==
    ( /\ route.raw = ScopePrompt
      /\ route.stage = "done"
      /\ ScopeOf(route.memory.scopes, toLowerCase(ScopePrompt)).season # ""
      /\ ScopeOf(route.memory.scopes, toLowerCase(ScopePrompt)).opponent # "" )
    => /\ route.paths[Len(route.paths)] # "scope_question"
       /\ pendingFile.kind # "scope"

-----------------------------------------------------------------------------
(* The exact match of a learned template with the prompt it was learnt from *)

\* C33: every stored entry whose source_prompt is the normalizePrompt of a
\* prompt P passes the exact-match test of a later turn that says P again:
\* normalizePromptKey(entry.source_prompt) = normalizePromptKey(P), that is,
\* normalizing the normalized prompt gives it back, also when P has
\* whitespace before its trailing punctuation
ExactMatchesSource ==
    \A P \in RoutePrompts :
        \A i \in 1..Len(semanticFile.learned_templates) :
            semanticFile.learned_templates[i].source_prompt = normalizePrompt(P)
                => normalizePromptKey(semanticFile.learned_templates[i].source_prompt)
                        = normalizePromptKey(P)

-----------------------------------------------------------------------------
(* The query a learned template sends to the gateway *)

\* the query renderMplSoccer runs for the arguments it is given:
\* params.query, or else the query built from params.template
effectiveQuery(templates, args) ==
    IF args.query # "" THEN args.query
    ELSE buildTemplateQuery(templates, args.template)

\* C34: the query run for a learned template, on the exact path as on the
\* keyword path, holds no placeholder of a parameter the template declares:
\* every {{team}}, {{team_a}}, {{team_b}}, {{season}} and {{last_n}} that
\* stands for a declared parameter has been replaced before the query runs
LearnedQueryFilled ==
    (route.stage = "render" /\ route.used # 0)
        => \A k \in 1..Len(semanticFile.learned_templates[route.used].params) :
                ~Includes(effectiveQuery(semanticFile.learned_templates, route.args),
                          "{{" \o semanticFile.learned_templates[route.used].params[k]
                               \o "}}")

-----------------------------------------------------------------------------
(* The keyword path over several learned templates *)

\* the learned template i is keyword-matched by the prompt, compatible with
\* it, and each parameter it declares has a value in the prompt
KeywordEligible(templates, i, raw, memory) ==
    LET Resolvable(template, params) ==
            \A k \in 1..Len(template.params) :
                ParamValue(params, template.params[k]) # ""
        Matched(template, key) ==
            /\ Len(template.intent_keywords) > 0
            /\ \A k \in 1..Len(template.intent_keywords) :
                    Includes(key, template.intent_keywords[k])
            /\ template.query_template # ""
            /\ template.chart_type # ""
            /\ isLearnedTemplateCompatible(raw, template, memory)
            /\ Resolvable(template, extractParamsFromPrompt(raw, memory))
    IN  Matched(templates[i], normalizePromptKey(raw))

\* C35: whenever the learned templates hold one that is keyword-matched by
\* a prompt, compatible with it and resolvable from it, the keyword path
\* picks such a template for that prompt, whatever templates stand before
\* it in the list
KeywordPathFindsEligible ==
    \A raw \in RoutePrompts :
        (\E i \in 1..Len(semanticFile.learned_templates) :
            KeywordEligible(semanticFile.learned_templates, i, raw, memoryFile))
        => /\ KeywordUsable(semanticFile.learned_templates, raw, memoryFile) # 0
           /\ KeywordEligible(semanticFile.learned_templates,
                    KeywordUsable(semanticFile.learned_templates, raw, memoryFile),
                    raw, memoryFile)

-----------------------------------------------------------------------------
(* One pending clarification and concurrent requests *)

\* the turn the step appends took the pending clarification as answered or
\* discarded it as overtaken by a new question
TurnConsumes(turn) ==
    /\ turn.took.kind # "none"
    /\ \/ turn.result # "null"
       \/ /\ normalizePrompt(stripGreetingPreamble(turn.raw)) # ""
          /\ looksLikeNewQuestion(normalizePrompt(stripGreetingPreamble(turn.raw)))

\* C36: a pending clarification is consumed by at most one request: the step
\* in which a request arrives and takes the item in pending.json as answered
\* (or discards it) also replaces that item in the file, so that a request
\* arriving while the first is still running cannot take it again
PendingConsumedOnce ==
    [][(/\ Len(turns') = Len(turns) + 1
        /\ TurnConsumes(turns'[Len(turns')]))
       => /\ turns'[Len(turns')].took = pendingFile
          /\ pendingFile' # pendingFile]_vars

\* a request took the pending clarification as answered and is still
\* running when a second request arrives, which finds the item gone
SecondRequestFindsItGone ==
    \E i, j \in 1..Len(turns) :
        /\ i < j
        /\ turns[i].took.kind # "none"
        /\ turns[i].result = "resolved"
        /\ turns[i].reply = ""
        /\ turns[j].took # turns[i].took
        /\ turns[j].reply = ""

-----------------------------------------------------------------------------
(* One query through renderMplSoccerAndLearn and renderMplSoccer: the last-N
   limit is enforced in each *)

LimitQueries ==
    {"",
     "select x, y from viz_match_events_with_match where team_name ilike '%Ahly%'",
     "select x, y, team_name, date_time from viz_match_events_with_match where event_name = 'Shoot'",
     "select x, y, player_name, date_time from viz_match_events where event_name = 'Pass'",
     "select x, y from viz_match_events where event_name = 'Shoot' limit 100",
     "SELECT x, y FROM viz_match_events ORDER BY date_time DESC LIMIT 10",
     "select x, y, row_number () over (order by date_time desc) as rn from viz_match_events",
     "select x, y from shots order by date_time desc limit"}

LimitPrompts ==
    {"",
     "show a shot map for Ahly",
     "last 5 shots for Ahly",
     "Last  3 passes of Ahly against Zamalek?",
     "last 12 matches comparing Ahly and Zamalek",
     "last 0 shots for Ahly"}

SeriesFields == {"", "team_name", "player_name"}

LimitInit ==
    /\ memoryFile = EmptyMemory
    /\ pendingFile = NoPending
    /\ semanticFile = EmptySemantic
    /\ schemaCache = EmptySchemaCache
    /\ now = 0
    /\ req = [r \in Requests |-> IdleRequest]
    /\ running = 0
    /\ turns = <<>>
    /\ boot = "fetching"
    /\ tpl = NoTemplateRun
    /\ learnCall = NoLearnCall
    /\ sql = NoSqlCall
    /\ completion = NoCompletion
    /\ loop = NoLoop
    /\ route = NoRoute
    /\ refresh = NoRefresh
    /\ http = NoHttp
    /\ \E query \in LimitQueries, prompt \in LimitPrompts, series \in SeriesFields :
            limitRun = [NoLimitRun EXCEPT !.stage = "called", !.query = query,
                                          !.prompt = prompt, !.series = series]

\* renderMplSoccerAndLearn up to its call of renderMplSoccer: the series
\* field of a multi-team prompt, team_name asked of the query, the limit
LimitInLearn ==
    /\ limitRun.stage = "called"
    /\ LET Limited(query, series) ==
                [limitRun EXCEPT !.stage = "learning", !.series = series,
                                 !.learned = enforceLastNLimit(query, limitRun.prompt,
                                                               series)]
            Named(series) ==
                Limited(IF series = "team_name" /\ limitRun.query # ""
                        THEN ensureTeamNameInQuery(limitRun.query)
                        ELSE limitRun.query,
                        series)
       IN  limitRun' = Named(IF limitRun.series = ""
                                   /\ detectMultiTeamPrompt(limitRun.prompt)
                                THEN "team_name" ELSE limitRun.series)
    /\ UNCHANGED <<memoryFile, pendingFile, semanticFile, schemaCache, now, req,
                   running, turns, boot, tpl, learnCall, sql, completion, loop,
                   route, refresh, http>>

\* renderMplSoccer from effectiveQuery to the query it runs (a chart that is
\* no pass_map, no template): team_name asked of the query, the limit
LimitInRender ==
    /\ limitRun.stage = "learning"
    /\ LET Limited(query) ==
                [limitRun EXCEPT !.stage = "rendering",
                                 !.rendered = enforceLastNLimit(query, limitRun.prompt,
                                                                limitRun.series)]
       IN  limitRun' = Limited(IF limitRun.series = "team_name"
                                  /\ limitRun.learned # ""
                               THEN ensureTeamNameInQuery(limitRun.learned)
                               ELSE limitRun.learned)
    /\ UNCHANGED <<memoryFile, pendingFile, semanticFile, schemaCache, now, req,
                   running, turns, boot, tpl, learnCall, sql, completion, loop,
                   route, refresh, http>>

LimitNext == LimitInLearn \/ LimitInRender

LimitSpec == LimitInit /\ [][LimitNext]_vars

\* C37: enforceLastNLimit is idempotent: applied to its own output, with the
\* same prompt and series field, it returns that output unchanged; the
\* query renderMplSoccer runs is therefore the one renderMplSoccerAndLearn
\* handed it, with at most one limit or one row_number window added
EnforceIdempotent ==
    /\ limitRun.stage # "none"
        => enforceLastNLimit(enforceLastNLimit(limitRun.query, limitRun.prompt,
                                               limitRun.series),
                             limitRun.prompt, limitRun.series)
            = enforceLastNLimit(limitRun.query, limitRun.prompt, limitRun.series)
    /\ limitRun.stage = "rendering" => limitRun.rendered = limitRun.learned

\* a query without a window went through both functions and carries one
\* row_number window
WindowAddedOnce ==
    /\ limitRun.stage = "rendering"
    /\ ~Includes(limitRun.query, "row_number")
    /\ Includes(limitRun.rendered, "row_number() over (partition by")
    /\ ~Includes(limitRun.rendered, " limit ")

-----------------------------------------------------------------------------
(* Turns that say nothing while a clarification is pending *)

\* what is said: nothing, punctuation only, and an answer
QuietTurns == {"", "?", "the team"}

MaxQuietTurns == 2

\* the pending clarification the server starts with: the alias question and
\* the scope question as proxyChat saves them, or none
QuietPendings ==
    {NoPending,
     Pending("alias", "Zamalek", "away for Zamalek", "", 0, ""),
     Pending("scope", "", "show a shot map for Ahly", "show a shot map for ahly", 2,
             "Which season should I use?")}

QuietInit ==
    /\ memoryFile = EmptyMemory
    /\ pendingFile \in QuietPendings
    /\ semanticFile = EmptySemantic
    /\ schemaCache = EmptySchemaCache
    /\ now = 0
    /\ req = [r \in Requests |-> IdleRequest]
    /\ running = 0
    /\ turns = <<>>
    /\ boot = "fetching"
    /\ tpl = NoTemplateRun
    /\ learnCall = NoLearnCall
    /\ sql = NoSqlCall
    /\ completion = NoCompletion
    /\ loop = NoLoop
    /\ route = NoRoute
    /\ refresh = NoRefresh
    /\ http = NoHttp
    /\ limitRun = NoLimitRun

\* a chat request arrives, as in Receive
QuietReceive(text) == Len(turns) < MaxQuietTurns /\ Receive(text)

QuietNext ==
    \/ \E text \in QuietTurns : QuietReceive(text)
    \/ \E r \in Requests : Dispatch(r)
    \/ \E r \in Requests : ModelResponds(r)
    \/ \E r \in Requests : SchemaFetched(r)
    \/ \E r \in Requests : QueryReturns(r)
    \/ \E r \in Requests : HintsFetched(r)
    \/ \E r \in Requests : RenderReturns(r)
    \/ \E r \in Requests : AnalysisReturns(r)
    \/ StartupRefreshed
    \/ Tick

QuietSpec == QuietInit /\ [][QuietNext]_vars

\* the normalized text of a turn is empty
SaysNothing(raw) == normalizePrompt(stripGreetingPreamble(raw)) = ""

\* C38: a turn whose normalized text is empty leaves pending.json and
\* memory.json as they are: on its arrival handlePendingClarification returns
\* null without clearing, advancing or answering the pending item, and no
\* later step of its request writes either file
QuietTurnKeepsFiles ==
    [][(\/ /\ Len(turns') = Len(turns) + 1
           /\ SaysNothing(turns'[Len(turns')].raw)
        \/ \E r \in Requests :
              /\ req[r].pc # "idle"
              /\ SaysNothing(req[r].raw)
              /\ req'[r] # req[r])
       => /\ pendingFile' = pendingFile
          /\ memoryFile' = memoryFile
          /\ Len(turns') = Len(turns) + 1 => turns'[Len(turns')].result = "null"]_vars

\* a turn of punctuation only has been replied to while a clarification is
\* pending, and the clarification is still the one the turn found
QuietTurnWhilePending ==
    \E i \in 1..Len(turns) :
        /\ SaysNothing(turns[i].raw)
        /\ turns[i].raw # ""
        /\ turns[i].took.kind # "none"
        /\ turns[i].reply # ""
        /\ pendingFile = turns[i].took

=============================================================================
